---- MODULE Spec2Model ----
(***************************************************************************)
(* Model of the Loan ShArc contracts: the CreditLoan ledger, the           *)
(* CreditScore store it consults, and the USDC token it moves.             *)
(* Every external call of a contract is one atomic step (an EVM            *)
(* transaction): a call that reverts leaves every contract's storage as    *)
(* it was.                                                                 *)
(***************************************************************************)
EXTENDS Integers, Sequences, FiniteSets, TLC

(* ------------------------------------------------------------------ *)
(* Bounds of the model                                                  *)
(* ------------------------------------------------------------------ *)
\* largest amount passed to fund / issueLoan / repay / withdraw
MaxAmt == 2
\* number of loans issued in one behaviour (cap on nextLoanId)
MaxLoans == 2
\* largest USDC balance of the ledger (cap on what fund and repay bring in)
MaxLiquidity == 2
\* number of payout calls submitted together (SpecConc)
MaxPending == 3
\* the latest block.timestamp (SpecStore)
MaxTime == 3

(* ------------------------------------------------------------------ *)
(* Addresses                                                            *)
(* ------------------------------------------------------------------ *)
Zero == "0x0"
Owner == "owner"
B1 == "borrower1"
Ledger == "creditLoan"
ScoreStore == "creditScore"

\* externally owned accounts that send transactions
Users == {Owner, B1}
\* every address of the model
Addr == Users \cup {Ledger, Zero}
\* borrower arguments of issueLoan
Borrowers == {B1, Ledger, Zero}
\* values given to setCreditScoreContract
ScoreContracts == {Zero, ScoreStore}

\* service fee rates given to updateServiceFeeRate (basis points)
Rates == {0, 5000, 5001}
\* scores given to setCreditScore
Scores == {0, 650, 700}
\* users given to setCreditScore
ScoredUsers == {B1, Zero}
\* minimums given to updateMinCreditScore
MinScores == {0, 700}

Amounts == 0..MaxAmt
\* ids given to repay and cancelLoan; an id >= nextLoanId was never issued
LoanIds == 0..(MaxLoans - 1)

VARIABLES
    owner,                \* Ownable._owner of the ledger
    serviceFeeRate,       \* CreditLoan.serviceFeeRate
    creditScoreContract,  \* CreditLoan.creditScoreContract
    minCreditScore,       \* CreditLoan.minCreditScore
    nextLoanId,           \* CreditLoan.nextLoanId
    loans,                \* CreditLoan.loans : id -> Loan
    borrowerLoans,        \* CreditLoan.borrowerLoans : address -> ids
    liquidity,            \* USDC.balanceOf(address(ledger))
    admin,                \* CreditScore.admin
    creditScore,          \* CreditScore.creditScore
    lastUpdated,          \* CreditScore.lastUpdated
    now,                  \* block.timestamp
    last,                 \* the last call: its operation and its outcome
    pending,              \* payout calls submitted together, not yet executed
    start,                \* the ledger's balance when they were submitted
    paid,                 \* what the executed ones have paid out
    lastDecision,         \* FreelanceCreditScorer.lastDecision
    ret,                  \* the decision returned by the scorer's last call
    asked,                \* msg.sender and the history of the scorer's last
                          \* call, where the call is recorded (SpecReplay)
    frames,               \* the repay calls of the running transaction that
                          \* wait inside USDC.safeTransferFrom, outermost first
    work,                 \* the ledger's storage as the running transaction
                          \* has written it so far
    allowance,            \* USDC.allowance(signer, CREDIT_LOAN_ADDRESS)
    wanted,               \* the loan and the amount given to repayLoan
    sent,                 \* the repay transaction repayLoan sent
    walletAddress,        \* WalletProvider: useState walletAddress
    balance,              \* WalletProvider: useState balance
    isConnecting,         \* WalletProvider: useState isConnecting
    isFetchingBalance,    \* WalletProvider: useState isFetchingBalance
    fetches,              \* fetchBalance calls awaiting eth_getBalance
    connecting            \* connectWallet calls awaiting the wallet

ledgerVars == <<owner, serviceFeeRate, creditScoreContract, minCreditScore,
                nextLoanId, loans, borrowerLoans>>
storeVars == <<admin, creditScore, lastUpdated>>
vars == <<owner, serviceFeeRate, creditScoreContract, minCreditScore,
          nextLoanId, loans, borrowerLoans, liquidity,
          admin, creditScore, lastUpdated, now, last, pending, start, paid,
          lastDecision, ret, asked, frames, work, allowance, wanted, sent,
          walletAddress, balance, isConnecting, isFetchingBalance, fetches,
          connecting>>
batchVars == <<pending, start, paid>>
reentryVars == <<frames, work>>
helperVars == <<allowance, wanted, sent>>
walletVars == <<walletAddress, balance, isConnecting, isFetchingBalance,
                fetches, connecting>>
\* the state outside the contracts' storage and the scorer's calls
otherVars == <<reentryVars, helperVars, walletVars>>
scorerVars == <<lastDecision, ret, asked>>

\* a storage slot of the loans mapping that was never written
ZeroLoan == [id |-> 0, borrower |-> Zero, principal |-> 0, serviceFee |-> 0,
             totalOwed |-> 0, amountRepaid |-> 0, timestamp |-> 0,
             active |-> FALSE]

\* the record of a call: the operation and the error it reverted with
\* ("ok" when it did not revert)
Call(op, err) == [op |-> op, err |-> err]

(* ------------------------------------------------------------------ *)
(* USDC (ERC-20)                                                        *)
(* ------------------------------------------------------------------ *)
\* The ledger keeps no liquidity counter of its own: its liquidity is its
\* USDC balance, which is the only balance the model tracks.  What the
\* payer of a transferFrom holds and has approved is the token's state and
\* is an input of the call (PullOutcomes).

\* USDC.balanceOf(address(this))
getBalance == liquidity

\* the ways USDC.transferFrom(payer, this, amount) ends
PullOutcomes == {"ok", "ERC20InsufficientAllowance"}

\* the revert of USDC.transfer(to, amt) called by the ledger
TransferErr(to, amt) ==
    IF to = Zero THEN "ERC20InvalidReceiver"
    ELSE IF liquidity < amt THEN "ERC20InsufficientBalance"
    ELSE "ok"

\* the ledger's balance after USDC.transferFrom(payer, this, amt)
Pulled(amt) == liquidity + amt

\* the ledger's balance after USDC.transfer(to, amt)
Pushed(to, amt) == IF to = Ledger THEN liquidity ELSE liquidity - amt

(* ------------------------------------------------------------------ *)
(* CreditScore store                                                    *)
(* ------------------------------------------------------------------ *)
\* setCreditScoreErr without the check of the score
setCreditScoreErr_AllowsZero(caller, user, score) ==
    IF caller # admin THEN "Not authorized"
    ELSE IF user = Zero THEN "Invalid user"
    ELSE "ok"

setCreditScoreErr(caller, user, score) ==
    IF caller # admin THEN "Not authorized"
    ELSE IF user = Zero THEN "Invalid user"
    ELSE IF score = 0 THEN "Score must be > 0"
    ELSE "ok"

\* setCreditScore leaving the timestamp of the user as it was
setCreditScore_KeepsTime(caller, user, score) ==
    LET err == setCreditScoreErr(caller, user, score) IN
    /\ last' = Call("setCreditScore", err)
    /\ IF err = "ok"
       THEN /\ creditScore' = [creditScore EXCEPT ![user] = score]
            /\ UNCHANGED <<admin, lastUpdated>>
       ELSE UNCHANGED storeVars
    /\ UNCHANGED <<ledgerVars, liquidity, now>>

setCreditScore(caller, user, score) ==
    LET err == setCreditScoreErr(caller, user, score) IN
    /\ last' = Call("setCreditScore", err)
    /\ IF err = "ok"
       THEN /\ creditScore' = [creditScore EXCEPT ![user] = score]
            /\ lastUpdated' = [lastUpdated EXCEPT ![user] = now]
            /\ UNCHANGED admin
       ELSE UNCHANGED storeVars
    /\ UNCHANGED <<ledgerVars, liquidity, now>>

\* the score half of CreditScore.getCreditScore(user)
getCreditScore(user) == creditScore[user]

\* the (score, updatedAt) pair of CreditScore.getCreditScore(user)
getCreditScorePair(user) == <<creditScore[user], lastUpdated[user]>>

\* setAdminErr without the check of the new admin
setAdminErr_AllowsZero(caller, newAdmin) ==
    IF caller # admin THEN "Not authorized" ELSE "ok"

setAdminErr(caller, newAdmin) ==
    IF caller # admin THEN "Not authorized"
    ELSE IF newAdmin = Zero THEN "Invalid admin"
    ELSE "ok"

setAdmin(caller, newAdmin) ==
    LET err == setAdminErr(caller, newAdmin) IN
    /\ last' = Call("setAdmin", err)
    /\ IF err = "ok"
       THEN /\ admin' = newAdmin
            /\ UNCHANGED <<creditScore, lastUpdated>>
       ELSE UNCHANGED storeVars
    /\ UNCHANGED <<ledgerVars, liquidity, now>>

(* ------------------------------------------------------------------ *)
(* FreelanceCreditScorer                                                *)
(* ------------------------------------------------------------------ *)
\* Amounts of the scorer are counted in whole USDC: a totalEarnedUsdc of
\* the model stands for that many 1e6 token units.  For such amounts
\* floor(floor(v * 1e6 / m) / 1e6) = floor(v / m) and
\* sum(bps * e * 1e6) / (v * 1e6) = sum(bps * e) / v, so the score is the
\* one the contract computes; borrowingLimit, (v * 1e6 * 40) / 100 token
\* units, is counted in units of 1e4 tokens, where it is v * 40.

BASIS_POINTS == 10000
MAX_SCORE == 1000
\* 1 days, in seconds
Day == 86400
\* the largest value of a uint16 (csvSampleCount, onTimeRatioBps)
MaxUint16 == 65535
\* the largest value of a uint256 in the model; a sum or product above it
\* aborts the call (Solidity's checked arithmetic)
MaxUint == 1000000000
\* the value standing for any result above MaxUint
Overflow == MaxUint + 1

\* checked a + b and a * b: Overflow when the result exceeds MaxUint
CheckedAdd(a, b) == IF a > MaxUint - b THEN Overflow ELSE a + b
CheckedMul(a, b) ==
    IF b = 0 THEN 0
    ELSE IF a > MaxUint \div b THEN Overflow ELSE a * b

\* the largest number of receipts of a history
MaxPlatforms == 2

\* the snapshot of the histories: day 100
Snapshot == 100 * Day

\* the receipts histories are made of
Receipts ==
    { \* a busy platform paid on time, last payout at the snapshot
      [platformId |-> "upwork", totalEarnedUsdc |-> 40,
       csvSampleCount |-> 30, lastPayoutEpoch |-> Snapshot,
       onTimeRatioBps |-> BASIS_POINTS],
      \* a platform that paid nothing, last payout 45 days before the
      \* snapshot
      [platformId |-> "fiverr", totalEarnedUsdc |-> 0,
       csvSampleCount |-> 0, lastPayoutEpoch |-> Snapshot - 45 * Day,
       onTimeRatioBps |-> 0],
      \* every field at the maximum of its width
      [platformId |-> "max", totalEarnedUsdc |-> MaxUint,
       csvSampleCount |-> MaxUint16, lastPayoutEpoch |-> Snapshot + Day,
       onTimeRatioBps |-> MaxUint16] }

RECURSIVE SeqsUpTo(_, _)
SeqsUpTo(S, n) ==
    IF n = 0 THEN {<<>>}
    ELSE LET shorter == SeqsUpTo(S, n - 1) IN
         shorter \cup {Append(q, x) : q \in shorter, x \in S}

\* the histories given to previewDecision and evaluateAndStore
Histories ==
    [platforms : SeqsUpTo(Receipts, MaxPlatforms),
     lookbackMonths : {0, 1, 13},
     snapshotTimestamp : {0, Snapshot}]

\* the histories of the scorer's tests (amounts in whole USDC)
_richHistory ==
    [platforms |->
        << [platformId |-> "upwork", totalEarnedUsdc |-> 12500,
            csvSampleCount |-> 26, lastPayoutEpoch |-> 1759872000,
            onTimeRatioBps |-> 9700],
           [platformId |-> "fiverr", totalEarnedUsdc |-> 6200,
            csvSampleCount |-> 24, lastPayoutEpoch |-> 1759857600,
            onTimeRatioBps |-> 9300],
           [platformId |-> "uber", totalEarnedUsdc |-> 9800,
            csvSampleCount |-> 28, lastPayoutEpoch |-> 1759886400,
            onTimeRatioBps |-> 9900] >>,
     lookbackMonths |-> 12,
     snapshotTimestamp |-> 1759900800]

_leanHistory ==
    [platforms |->
        << [platformId |-> "upwork", totalEarnedUsdc |-> 3000,
            csvSampleCount |-> 8, lastPayoutEpoch |-> 1759814400,
            onTimeRatioBps |-> 8700] >>,
     lookbackMonths |-> 6,
     snapshotTimestamp |-> 1759900800]

\* the history without platforms of testRevertsWithoutPlatforms
EmptyHistory ==
    [platforms |-> <<>>, lookbackMonths |-> 12,
     snapshotTimestamp |-> 1700000000]

\* the histories of the scorer's tests
TestHistories == {_richHistory, _leanHistory, EmptyHistory}

\* the largest number of receipts of a recorded call's history, the
\* histories of the tests apart
MaxSubmitted == 1

\* a history whose only payout is dated a day after its snapshot
PostdatedHistory ==
    [platforms |->
        << [platformId |-> "upwork", totalEarnedUsdc |-> 40,
            csvSampleCount |-> 30, lastPayoutEpoch |-> Snapshot + Day,
            onTimeRatioBps |-> BASIS_POINTS] >>,
     lookbackMonths |-> 1,
     snapshotTimestamp |-> Snapshot]

\* the histories given to the calls that are recorded: the histories of
\* the tests, a postdated one, and short histories whose lookbackMonths
\* may be the largest uint256
Submitted ==
    {_richHistory, _leanHistory, PostdatedHistory}
    \cup [platforms : SeqsUpTo(Receipts, MaxSubmitted),
          lookbackMonths : {0, 1, MaxUint},
          snapshotTimestamp : {0, Snapshot}]

\* the value of `asked` before any recorded call
Unasked ==
    [caller |-> Zero,
     history |-> [platforms |-> <<>>, lookbackMonths |-> 0,
                  snapshotTimestamp |-> 0]]

\* the default value of a CreditDecision
ZeroDecision ==
    [creditScore |-> 0, borrowingLimit |-> 0, aprBps |-> 0,
     repaymentPeriodDays |-> 0, repaymentCount |-> 0]

_cap(value, maxValue) == IF value > maxValue THEN maxValue ELSE value

\* _freshnessScore counting a started day as a whole one
_freshnessScore_RoundsUp(snapshotTimestamp, lastPayoutEpoch) ==
    IF lastPayoutEpoch = 0 \/ snapshotTimestamp <= lastPayoutEpoch THEN 150
    ELSE LET daysStale ==
                 (snapshotTimestamp - lastPayoutEpoch + Day - 1) \div Day
         IN  IF daysStale >= 90 THEN 0
             ELSE 150 - (daysStale * 150) \div 90

\* _freshnessScore without the penalty for stale data
_freshnessScore_NoDecay(snapshotTimestamp, lastPayoutEpoch) == 150

_freshnessScore(snapshotTimestamp, lastPayoutEpoch) ==
    IF lastPayoutEpoch = 0 \/ snapshotTimestamp <= lastPayoutEpoch THEN 150
    ELSE LET daysStale == (snapshotTimestamp - lastPayoutEpoch) \div Day IN
         IF daysStale >= 90 THEN 0
         ELSE 150 - (daysStale * 150) \div 90

\* _deriveApr taking 2000 bps off at the top score
_deriveApr_SteeperSlope(score) ==
    LET aprReduction == (score * 2000) \div MAX_SCORE
        aprBps == 2500 - aprReduction
    IN  IF aprBps < 500 THEN 500 ELSE aprBps

\* _deriveApr without the reduction earned by the score
_deriveApr_NoReduction(score) == 2500

_deriveApr(score) ==
    LET aprReduction == (score * 1500) \div MAX_SCORE
        aprBps == 2500 - aprReduction
    IN  IF aprBps < 500 THEN 500 ELSE aprBps

\* _schedule with the thresholds excluded from the better tier
_schedule_Exclusive(score) ==
    LET installments == IF score > 800 THEN 6
                        ELSE IF score > 650 THEN 4
                        ELSE 3
    IN  [totalDays |-> installments * 30, installments |-> installments]

\* the installments and the total days of _schedule
_schedule(score) ==
    LET installments == IF score >= 800 THEN 6
                        ELSE IF score >= 650 THEN 4
                        ELSE 3
    IN  [totalDays |-> installments * 30, installments |-> installments]

\* the sums of the loop of _buildDecision over the first k receipts
RECURSIVE totalVolume(_, _)
totalVolume(platforms, k) ==
    IF k = 0 THEN 0
    ELSE CheckedAdd(totalVolume(platforms, k - 1),
                    platforms[k].totalEarnedUsdc)

RECURSIVE weightedOnTime(_, _)
weightedOnTime(platforms, k) ==
    IF k = 0 THEN 0
    ELSE LET sofar == weightedOnTime(platforms, k - 1)
             term == CheckedMul(platforms[k].onTimeRatioBps,
                                platforms[k].totalEarnedUsdc)
         IN  IF term = Overflow THEN Overflow ELSE CheckedAdd(sofar, term)

RECURSIVE totalSamples(_, _)
totalSamples(platforms, k) ==
    IF k = 0 THEN 0
    ELSE totalSamples(platforms, k - 1) + platforms[k].csvSampleCount

\* freshestPayout taking the payout of the last receipt read
freshestPayout_Last(platforms, k) ==
    IF k = 0 THEN 0 ELSE platforms[k].lastPayoutEpoch

RECURSIVE freshestPayout(_, _)
freshestPayout(platforms, k) ==
    IF k = 0 THEN 0
    ELSE LET sofar == freshestPayout(platforms, k - 1) IN
         IF platforms[k].lastPayoutEpoch > sofar
         THEN platforms[k].lastPayoutEpoch ELSE sofar

\* _buildDecisionErr without the check of snapshotTimestamp
_buildDecisionErr_IgnoresSnapshot(history) ==
    LET platformCount == Len(history.platforms) IN
    IF platformCount = 0 \/ history.lookbackMonths = 0
    THEN "InvalidHistory"
    ELSE IF \/ totalVolume(history.platforms, platformCount) = Overflow
            \/ weightedOnTime(history.platforms, platformCount) = Overflow
            \/ CheckedMul(history.lookbackMonths, 12) = Overflow
            \/ CheckedMul(totalVolume(history.platforms, platformCount), 40)
                   = Overflow
    THEN "Panic"
    ELSE "ok"

\* how _buildDecision ends: "InvalidHistory", "Panic" when a sum or a
\* product exceeds the uint256 range, or "ok"
_buildDecisionErr(history) ==
    LET platformCount == Len(history.platforms) IN
    IF platformCount = 0 \/ history.lookbackMonths = 0
           \/ history.snapshotTimestamp = 0
    THEN "InvalidHistory"
    ELSE IF \/ totalVolume(history.platforms, platformCount) = Overflow
            \/ weightedOnTime(history.platforms, platformCount) = Overflow
            \/ CheckedMul(history.lookbackMonths, 12) = Overflow
            \/ CheckedMul(totalVolume(history.platforms, platformCount), 40)
                   = Overflow
    THEN "Panic"
    ELSE "ok"

\* the score before the clamp, the monthly income not annualised
rawScore_MonthlyIncome(history) ==
    LET platformCount == Len(history.platforms)
        volume == totalVolume(history.platforms, platformCount)
        avgMonthlyIncome == volume \div history.lookbackMonths
        avgOnTimeBps ==
            IF volume = 0 THEN BASIS_POINTS
            ELSE weightedOnTime(history.platforms, platformCount) \div volume
    IN  _cap(avgMonthlyIncome, 400)
        + _cap(history.lookbackMonths * 12, 150)
        + _cap(platformCount * 70, 200)
        + _cap((avgOnTimeBps * 150) \div BASIS_POINTS, 150)
        + _cap(totalSamples(history.platforms, platformCount) * 5, 150)
        + _freshnessScore(history.snapshotTimestamp,
                          freshestPayout(history.platforms, platformCount))

\* the score before the clamp at MAX_SCORE
rawScore(history) ==
    LET platformCount == Len(history.platforms)
        volume == totalVolume(history.platforms, platformCount)
        avgMonthlyIncome == volume \div history.lookbackMonths
        avgOnTimeBps ==
            IF volume = 0 THEN BASIS_POINTS
            ELSE weightedOnTime(history.platforms, platformCount) \div volume
    IN  _cap(avgMonthlyIncome * 12, 400)
        + _cap(history.lookbackMonths * 12, 150)
        + _cap(platformCount * 70, 200)
        + _cap((avgOnTimeBps * 150) \div BASIS_POINTS, 150)
        + _cap(totalSamples(history.platforms, platformCount) * 5, 150)
        + _freshnessScore(history.snapshotTimestamp,
                          freshestPayout(history.platforms, platformCount))

\* _buildDecision without the clamp of the score at MAX_SCORE
_buildDecision_Unclamped(history) ==
    LET finalScore == rawScore(history)
        volume == totalVolume(history.platforms, Len(history.platforms))
    IN  [creditScore |-> finalScore,
         borrowingLimit |-> volume * 40,
         aprBps |-> _deriveApr(finalScore),
         repaymentPeriodDays |-> _schedule(finalScore).totalDays,
         repaymentCount |-> _schedule(finalScore).installments]

\* the decision of a history for which _buildDecisionErr is "ok"
_buildDecision(history) ==
    LET finalScore == _cap(rawScore(history), MAX_SCORE)
        volume == totalVolume(history.platforms, Len(history.platforms))
    IN  [creditScore |-> finalScore,
         borrowingLimit |-> volume * 40,
         aprBps |-> _deriveApr(finalScore),
         repaymentPeriodDays |-> _schedule(finalScore).totalDays,
         repaymentCount |-> _schedule(finalScore).installments]

\* evaluateAndStore keeping the caller's stored decision when it scores
\* higher than the new one
evaluateAndStore_KeepsBest(caller, history) ==
    LET err == _buildDecisionErr(history)
        fresh == _buildDecision(history)
        best == IF lastDecision[caller].creditScore > fresh.creditScore
                THEN lastDecision[caller] ELSE fresh
    IN  /\ last' = Call("evaluateAndStore", err)
        /\ IF err = "ok"
           THEN /\ ret' = best
                /\ lastDecision' = [lastDecision EXCEPT ![caller] = best]
           ELSE /\ ret' = ZeroDecision
                /\ UNCHANGED lastDecision
        /\ UNCHANGED <<ledgerVars, liquidity, storeVars, now>>

\* evaluateAndStore publishing the score in the score store as well
evaluateAndStore_PublishesScore(caller, history) ==
    LET err == _buildDecisionErr(history) IN
    /\ last' = Call("evaluateAndStore", err)
    /\ IF err = "ok"
       THEN /\ ret' = _buildDecision(history)
            /\ lastDecision' = [lastDecision EXCEPT
                                  ![caller] = _buildDecision(history)]
            /\ creditScore' = [creditScore EXCEPT
                                 ![caller] = _buildDecision(history).creditScore]
            /\ UNCHANGED <<admin, lastUpdated>>
       ELSE /\ ret' = ZeroDecision
            /\ UNCHANGED <<lastDecision, storeVars>>
    /\ UNCHANGED <<ledgerVars, liquidity, now>>

\* evaluateAndStore storing the decision for every subject
evaluateAndStore_Broadcast(caller, history) ==
    LET err == _buildDecisionErr(history) IN
    /\ last' = Call("evaluateAndStore", err)
    /\ IF err = "ok"
       THEN /\ ret' = _buildDecision(history)
            /\ lastDecision' = [a \in Users |-> _buildDecision(history)]
       ELSE /\ ret' = ZeroDecision
            /\ UNCHANGED lastDecision
    /\ UNCHANGED <<ledgerVars, liquidity, storeVars, now>>

evaluateAndStore(caller, history) ==
    LET err == _buildDecisionErr(history) IN
    /\ last' = Call("evaluateAndStore", err)
    /\ IF err = "ok"
       THEN /\ ret' = _buildDecision(history)
            /\ lastDecision' = [lastDecision EXCEPT
                                  ![caller] = _buildDecision(history)]
       ELSE /\ ret' = ZeroDecision
            /\ UNCHANGED lastDecision
    /\ UNCHANGED <<ledgerVars, liquidity, storeVars, now>>

\* previewDecision is pure: it reads neither storage nor msg.sender
previewDecision(history) ==
    LET err == _buildDecisionErr(history) IN
    /\ last' = Call("previewDecision", err)
    /\ ret' = IF err = "ok" THEN _buildDecision(history) ELSE ZeroDecision
    /\ UNCHANGED <<lastDecision, ledgerVars, liquidity, storeVars, now>>

getLastDecision(user) == lastDecision[user]

(* ------------------------------------------------------------------ *)
(* CreditLoan ledger                                                    *)
(* ------------------------------------------------------------------ *)
\* onlyOwnerErr letting every caller through
onlyOwnerErr_Open(caller) == "ok"

\* the onlyOwner modifier
onlyOwnerErr(caller) ==
    IF caller # owner THEN "OwnableUnauthorizedAccount" ELSE "ok"

\* fundErr without the zero-amount check
fundErr_NoZeroCheck(caller, amount, tok) ==
    IF caller # owner THEN "OwnableUnauthorizedAccount"
    ELSE tok

\* tok is the outcome of USDC.safeTransferFrom(msg.sender, this, amount)
fundErr(caller, amount, tok) ==
    IF caller # owner THEN "OwnableUnauthorizedAccount"
    ELSE IF amount = 0 THEN "InvalidAmount"
    ELSE tok

fund(caller, amount, tok) ==
    LET err == fundErr(caller, amount, tok) IN
    /\ last' = Call("fund", err)
    /\ IF err = "ok"
       THEN /\ Pulled(amount) <= MaxLiquidity
            /\ liquidity' = Pulled(amount)
       ELSE UNCHANGED liquidity
    /\ UNCHANGED <<ledgerVars, storeVars, now>>

\* the credit gate of issueLoan: TRUE when the call reverts
GateRejects(borrower) ==
    /\ minCreditScore > 0
    /\ creditScoreContract # Zero
    /\ getCreditScore(borrower) < minCreditScore

\* ServiceFee with the rate taken per mille instead of per ten thousand
ServiceFee_PerMille(principal) == (principal * serviceFeeRate) \div 1000

\* the service fee of a loan of the given principal at the rate in force
ServiceFee(principal) == (principal * serviceFeeRate) \div 10000

\* issueLoanErr checking the principal against the balance seen when the
\* call was submitted, not the balance at execution
issueLoanErr_StaleBalance(caller, borrower, principal) ==
    IF caller # owner THEN "OwnableUnauthorizedAccount"
    ELSE IF principal = 0 THEN "InvalidAmount"
    ELSE IF principal > start THEN "InsufficientLiquidity"
    ELSE IF GateRejects(borrower) THEN "InsufficientCreditScore"
    ELSE TransferErr(borrower, principal)

\* issueLoanErr refusing a principal above the borrower's last
\* borrowingLimit
issueLoanErr_ChecksLimit(caller, borrower, principal) ==
    IF caller # owner THEN "OwnableUnauthorizedAccount"
    ELSE IF principal = 0 THEN "InvalidAmount"
    ELSE IF principal > getBalance THEN "InsufficientLiquidity"
    ELSE IF GateRejects(borrower) THEN "InsufficientCreditScore"
    ELSE IF borrower \in Users
            /\ principal > lastDecision[borrower].borrowingLimit
    THEN "InsufficientCreditScore"
    ELSE TransferErr(borrower, principal)

issueLoanErr(caller, borrower, principal) ==
    IF caller # owner THEN "OwnableUnauthorizedAccount"
    ELSE IF principal = 0 THEN "InvalidAmount"
    ELSE IF principal > getBalance THEN "InsufficientLiquidity"
    ELSE IF GateRejects(borrower) THEN "InsufficientCreditScore"
    ELSE TransferErr(borrower, principal)

\* the Loan written by issueLoan
NewLoan(borrower, principal) ==
    [id |-> nextLoanId, borrower |-> borrower, principal |-> principal,
     serviceFee |-> ServiceFee(principal),
     totalOwed |-> principal + ServiceFee(principal),
     amountRepaid |-> 0, timestamp |-> now, active |-> TRUE]

\* issueLoan whose storage writes survive a revert of the final transfer
issueLoan_KeepsWrites(caller, borrower, principal) ==
    LET err == issueLoanErr(caller, borrower, principal) IN
    /\ last' = Call("issueLoan", err)
    /\ IF err \in {"ok", "ERC20InvalidReceiver"}
       THEN /\ nextLoanId < MaxLoans
            /\ nextLoanId' = nextLoanId + 1
            /\ loans' = [loans EXCEPT ![nextLoanId] = NewLoan(borrower, principal)]
            /\ borrowerLoans' = [borrowerLoans EXCEPT
                                   ![borrower] = Append(@, nextLoanId)]
            /\ liquidity' = IF err = "ok" THEN Pushed(borrower, principal)
                            ELSE liquidity
            /\ UNCHANGED <<owner, serviceFeeRate, creditScoreContract,
                           minCreditScore>>
       ELSE UNCHANGED <<ledgerVars, liquidity>>
    /\ UNCHANGED <<storeVars, now>>

\* issueLoan that does not advance nextLoanId
issueLoan_NoIncrement(caller, borrower, principal) ==
    LET err == issueLoanErr(caller, borrower, principal) IN
    /\ last' = Call("issueLoan", err)
    /\ IF err = "ok"
       THEN /\ loans' = [loans EXCEPT ![nextLoanId] = NewLoan(borrower, principal)]
            /\ borrowerLoans' = [borrowerLoans EXCEPT
                                   ![borrower] = Append(@, nextLoanId)]
            /\ liquidity' = Pushed(borrower, principal)
            /\ UNCHANGED <<owner, serviceFeeRate, creditScoreContract,
                           minCreditScore, nextLoanId>>
       ELSE UNCHANGED <<ledgerVars, liquidity>>
    /\ UNCHANGED <<storeVars, now>>

issueLoan(caller, borrower, principal) ==
    LET err == issueLoanErr(caller, borrower, principal) IN
    /\ last' = Call("issueLoan", err)
    /\ IF err = "ok"
       THEN /\ nextLoanId < MaxLoans
            /\ nextLoanId' = nextLoanId + 1
            /\ loans' = [loans EXCEPT ![nextLoanId] = NewLoan(borrower, principal)]
            /\ borrowerLoans' = [borrowerLoans EXCEPT
                                   ![borrower] = Append(@, nextLoanId)]
            /\ liquidity' = Pushed(borrower, principal)
            /\ UNCHANGED <<owner, serviceFeeRate, creditScoreContract,
                           minCreditScore>>
       ELSE UNCHANGED <<ledgerVars, liquidity>>
    /\ UNCHANGED <<storeVars, now>>

\* repayErr without the overpayment check
repayErr_NoOverpayCheck(caller, loanId, amount, tok) ==
    IF amount = 0 THEN "InvalidAmount"
    ELSE IF ~loans[loanId].active THEN "NoActiveLoan"
    ELSE IF loans[loanId].borrower # caller THEN "NotBorrower"
    ELSE tok

\* repayErr without the active check
repayErr_NoActiveCheck(caller, loanId, amount, tok) ==
    IF amount = 0 THEN "InvalidAmount"
    ELSE IF loans[loanId].borrower # caller THEN "NotBorrower"
    ELSE IF amount > loans[loanId].totalOwed - loans[loanId].amountRepaid
         THEN "OverpaymentNotAllowed"
    ELSE tok

\* repayErr rejecting a repayment of exactly the remaining balance
repayErr_OffByOne(caller, loanId, amount, tok) ==
    IF amount = 0 THEN "InvalidAmount"
    ELSE IF ~loans[loanId].active THEN "NoActiveLoan"
    ELSE IF loans[loanId].borrower # caller THEN "NotBorrower"
    ELSE IF amount >= loans[loanId].totalOwed - loans[loanId].amountRepaid
         THEN "OverpaymentNotAllowed"
    ELSE tok

\* repayErr without the borrower check
repayErr_NoBorrowerCheck(caller, loanId, amount, tok) ==
    IF amount = 0 THEN "InvalidAmount"
    ELSE IF ~loans[loanId].active THEN "NoActiveLoan"
    ELSE IF amount > loans[loanId].totalOwed - loans[loanId].amountRepaid
         THEN "OverpaymentNotAllowed"
    ELSE tok

\* tok is the outcome of USDC.safeTransferFrom(msg.sender, this, amount)
repayErr(caller, loanId, amount, tok) ==
    IF amount = 0 THEN "InvalidAmount"
    ELSE IF ~loans[loanId].active THEN "NoActiveLoan"
    ELSE IF loans[loanId].borrower # caller THEN "NotBorrower"
    ELSE IF amount > loans[loanId].totalOwed - loans[loanId].amountRepaid
         THEN "OverpaymentNotAllowed"
    ELSE tok

\* Repaid without the closing of a loan whose balance reached zero
Repaid_NeverCloses(loan, amount) ==
    [loan EXCEPT !.amountRepaid = @ + amount]

\* the Loan after a repayment of amount has been pulled
Repaid(loan, amount) ==
    LET remainingBalance == loan.totalOwed - (loan.amountRepaid + amount)
    IN  [loan EXCEPT !.amountRepaid = @ + amount,
                     !.active = (remainingBalance # 0)]

repay(caller, loanId, amount, tok) ==
    LET err == repayErr(caller, loanId, amount, tok) IN
    /\ last' = Call("repay", err)
    /\ IF err = "ok"
       THEN /\ Pulled(amount) <= MaxLiquidity
            /\ liquidity' = Pulled(amount)
            /\ loans' = [loans EXCEPT ![loanId] = Repaid(@, amount)]
            /\ UNCHANGED <<owner, serviceFeeRate, creditScoreContract,
                           minCreditScore, nextLoanId, borrowerLoans>>
       ELSE UNCHANGED <<ledgerVars, liquidity>>
    /\ UNCHANGED <<storeVars, now>>

cancelLoanErr(caller, loanId) ==
    IF caller # owner THEN "OwnableUnauthorizedAccount"
    ELSE IF ~loans[loanId].active THEN "NoActiveLoan"
    ELSE "ok"

\* cancelLoan that also writes off what the borrower has repaid
cancelLoan_ClawsBack(caller, loanId) ==
    LET err == cancelLoanErr(caller, loanId) IN
    /\ last' = Call("cancelLoan", err)
    /\ IF err = "ok"
       THEN /\ loans' = [loans EXCEPT ![loanId].active = FALSE,
                                      ![loanId].amountRepaid = 0]
            /\ UNCHANGED <<owner, serviceFeeRate, creditScoreContract,
                           minCreditScore, nextLoanId, borrowerLoans>>
       ELSE UNCHANGED ledgerVars
    /\ UNCHANGED <<liquidity, storeVars, now>>

\* cancelLoan that also drops the id from the borrower's list
cancelLoan_Unindexes(caller, loanId) ==
    LET err == cancelLoanErr(caller, loanId) IN
    /\ last' = Call("cancelLoan", err)
    /\ IF err = "ok"
       THEN /\ loans' = [loans EXCEPT ![loanId].active = FALSE]
            /\ borrowerLoans' =
                  [borrowerLoans EXCEPT
                     ![loans[loanId].borrower] =
                        SelectSeq(@, LAMBDA x : x # loanId)]
            /\ UNCHANGED <<owner, serviceFeeRate, creditScoreContract,
                           minCreditScore, nextLoanId>>
       ELSE UNCHANGED ledgerVars
    /\ UNCHANGED <<liquidity, storeVars, now>>

cancelLoan(caller, loanId) ==
    LET err == cancelLoanErr(caller, loanId) IN
    /\ last' = Call("cancelLoan", err)
    /\ IF err = "ok"
       THEN /\ loans' = [loans EXCEPT ![loanId].active = FALSE]
            /\ UNCHANGED <<owner, serviceFeeRate, creditScoreContract,
                           minCreditScore, nextLoanId, borrowerLoans>>
       ELSE UNCHANGED ledgerVars
    /\ UNCHANGED <<liquidity, storeVars, now>>

withdrawErr(caller, amount) ==
    IF caller # owner THEN "OwnableUnauthorizedAccount"
    ELSE IF amount = 0 THEN "InvalidAmount"
    ELSE IF amount > getBalance THEN "InvalidAmount"
    ELSE TransferErr(owner, amount)

withdraw(caller, amount) ==
    LET err == withdrawErr(caller, amount) IN
    /\ last' = Call("withdraw", err)
    /\ IF err = "ok"
       THEN liquidity' = Pushed(owner, amount)
       ELSE UNCHANGED liquidity
    /\ UNCHANGED <<ledgerVars, storeVars, now>>

\* updateServiceFeeRateErr with the cap at 100% instead of 50%
updateServiceFeeRateErr_CapAt10000(caller, newRate) ==
    IF caller # owner THEN "OwnableUnauthorizedAccount"
    ELSE IF newRate > 10000 THEN "InvalidServiceFeeRate"
    ELSE "ok"

updateServiceFeeRateErr(caller, newRate) ==
    IF caller # owner THEN "OwnableUnauthorizedAccount"
    ELSE IF newRate > 5000 THEN "InvalidServiceFeeRate"
    ELSE "ok"

\* updateServiceFeeRate that also re-prices the loans already issued
updateServiceFeeRate_Reprices(caller, newRate) ==
    LET err == updateServiceFeeRateErr(caller, newRate)
        repriced(l) == [l EXCEPT
                          !.serviceFee = (l.principal * newRate) \div 10000,
                          !.totalOwed = l.principal
                                        + (l.principal * newRate) \div 10000]
    IN
    /\ last' = Call("updateServiceFeeRate", err)
    /\ IF err = "ok"
       THEN /\ serviceFeeRate' = newRate
            /\ loans' = [i \in LoanIds |->
                           IF loans[i].active THEN repriced(loans[i])
                           ELSE loans[i]]
       ELSE UNCHANGED <<serviceFeeRate, loans>>
    /\ UNCHANGED <<owner, creditScoreContract, minCreditScore, nextLoanId,
                   borrowerLoans, liquidity, storeVars, now>>

updateServiceFeeRate(caller, newRate) ==
    LET err == updateServiceFeeRateErr(caller, newRate) IN
    /\ last' = Call("updateServiceFeeRate", err)
    /\ IF err = "ok"
       THEN serviceFeeRate' = newRate
       ELSE UNCHANGED serviceFeeRate
    /\ UNCHANGED <<owner, creditScoreContract, minCreditScore, nextLoanId,
                   loans, borrowerLoans, liquidity, storeVars, now>>

setCreditScoreContract(caller, newContract) ==
    LET err == onlyOwnerErr(caller) IN
    /\ last' = Call("setCreditScoreContract", err)
    /\ IF err = "ok"
       THEN creditScoreContract' = newContract
       ELSE UNCHANGED creditScoreContract
    /\ UNCHANGED <<owner, serviceFeeRate, minCreditScore, nextLoanId,
                   loans, borrowerLoans, liquidity, storeVars, now>>

updateMinCreditScore(caller, minScore) ==
    LET err == onlyOwnerErr(caller) IN
    /\ last' = Call("updateMinCreditScore", err)
    /\ IF err = "ok"
       THEN minCreditScore' = minScore
       ELSE UNCHANGED minCreditScore
    /\ UNCHANGED <<owner, serviceFeeRate, creditScoreContract, nextLoanId,
                   loans, borrowerLoans, liquidity, storeVars, now>>

\* getRemainingBalance without the active check
getRemainingBalance_IgnoresActive(loanId) ==
    loans[loanId].totalOwed - loans[loanId].amountRepaid

\* CreditLoan.getRemainingBalance
getRemainingBalance(loanId) ==
    IF ~loans[loanId].active THEN 0
    ELSE loans[loanId].totalOwed - loans[loanId].amountRepaid

\* CreditLoan.getBorrowerLoans
getBorrowerLoans(borrower) == borrowerLoans[borrower]

(* ------------------------------------------------------------------ *)
(* The deployed system                                                  *)
(* ------------------------------------------------------------------ *)
\* the slot of a submitted call that has been executed
None == [op |-> "none", who |-> Zero, amt |-> 0]

\* no transaction is running
NoWork == [loans |-> <<>>, liquidity |-> 0]

\* no repay transaction was asked of, or sent by, repayLoan
NoTx == [loanId |-> 0, amount |-> 0, allowed |-> 0]

\* the balance shown before any fetch and after disconnectWallet
ResetBalance == "0.000000"

\* nothing runs outside the contracts: no transaction is under way, the
\* page has just loaded, no wallet is connected
Idle ==
    /\ frames = <<>>
    /\ work = NoWork
    /\ allowance = [u \in Users |-> 0]
    /\ wanted = NoTx
    /\ sent = NoTx
    /\ walletAddress = ""
    /\ balance = ResetBalance
    /\ isConnecting = FALSE
    /\ isFetchingBalance = FALSE
    /\ fetches = <<>>
    /\ connecting = 0

\* the storage of both contracts after their constructors
Deployed ==
    /\ owner = Owner
    /\ serviceFeeRate = 1000
    /\ creditScoreContract = Zero
    /\ minCreditScore = 0
    /\ nextLoanId = 0
    /\ loans = [i \in LoanIds |-> ZeroLoan]
    /\ borrowerLoans = [a \in Addr |-> <<>>]
    /\ admin = Owner
    /\ creditScore = [a \in Addr |-> 0]
    /\ lastUpdated = [a \in Addr |-> 0]
    /\ now = 1
    /\ last = Call("constructor", "ok")
    /\ lastDecision = [a \in Users |-> ZeroDecision]
    /\ ret = ZeroDecision
    /\ asked = Unasked
    /\ Idle

Init ==
    /\ Deployed
    /\ liquidity = 0
    /\ pending = [k \in 1..MaxPending |-> None]
    /\ start = 0
    /\ paid = 0

\* One transaction of each operation of the ledger, with any caller and
\* any arguments.
FundTx ==
    /\ \E c \in Users, a \in Amounts, t \in PullOutcomes : fund(c, a, t)
    /\ UNCHANGED <<batchVars, scorerVars, otherVars>>

IssueLoanTx ==
    /\ \E c \in Users, b \in Borrowers, p \in Amounts : issueLoan(c, b, p)
    /\ UNCHANGED <<batchVars, scorerVars, otherVars>>

RepayTx ==
    /\ \E c \in Users, i \in LoanIds, a \in Amounts, t \in PullOutcomes :
          repay(c, i, a, t)
    /\ UNCHANGED <<batchVars, scorerVars, otherVars>>

CancelLoanTx ==
    /\ \E c \in Users, i \in LoanIds : cancelLoan(c, i)
    /\ UNCHANGED <<batchVars, scorerVars, otherVars>>

WithdrawTx ==
    /\ \E c \in Users, a \in Amounts : withdraw(c, a)
    /\ UNCHANGED <<batchVars, scorerVars, otherVars>>

UpdateServiceFeeRateTx ==
    /\ \E c \in Users, r \in Rates : updateServiceFeeRate(c, r)
    /\ UNCHANGED <<batchVars, scorerVars, otherVars>>

SetCreditScoreContractTx ==
    /\ \E c \in Users, s \in ScoreContracts : setCreditScoreContract(c, s)
    /\ UNCHANGED <<batchVars, scorerVars, otherVars>>

UpdateMinCreditScoreTx ==
    /\ \E c \in Users, s \in MinScores : updateMinCreditScore(c, s)
    /\ UNCHANGED <<batchVars, scorerVars, otherVars>>

Next ==
    \/ FundTx
    \/ IssueLoanTx
    \/ RepayTx
    \/ CancelLoanTx
    \/ WithdrawTx
    \/ UpdateServiceFeeRateTx
    \/ SetCreditScoreContractTx
    \/ UpdateMinCreditScoreTx

Spec == Init /\ [][Next]_vars

(* ------------------------------------------------------------------ *)
(* The ledger with its score store                                      *)
(* ------------------------------------------------------------------ *)
\* One transaction of the score store's setCreditScore, with any caller and
\* any arguments.
SetCreditScoreTx ==
    /\ \E c \in Users, u \in ScoredUsers, s \in Scores : setCreditScore(c, u, s)
    /\ UNCHANGED <<batchVars, scorerVars, otherVars>>

\* The calls that decide the credit gate: scores are stored, the gate is
\* configured, the ledger is funded and loans are issued.
NextGate ==
    \/ SetCreditScoreTx
    \/ SetCreditScoreContractTx
    \/ UpdateMinCreditScoreTx
    \/ FundTx
    \/ IssueLoanTx

SpecGate == Init /\ [][NextGate]_vars

(* ------------------------------------------------------------------ *)
(* The score store alone                                                *)
(* ------------------------------------------------------------------ *)
\* users and new admins given to the score store
StoreUsers == Users \cup {Zero}

\* One transaction of each function of the score store, with any caller
\* and any arguments.
SetScoreTx ==
    /\ \E c \in Users, u \in StoreUsers, sc \in Scores :
          setCreditScore(c, u, sc)
    /\ UNCHANGED <<batchVars, scorerVars, otherVars>>

SetAdminTx ==
    /\ \E c \in Users, n \in StoreUsers : setAdmin(c, n)
    /\ UNCHANGED <<batchVars, scorerVars, otherVars>>

\* a later block: block.timestamp grows
NextBlock ==
    /\ now < MaxTime
    /\ now' = now + 1
    /\ UNCHANGED <<ledgerVars, liquidity, storeVars, last, batchVars,
                   scorerVars, otherVars>>

NextStore ==
    \/ SetScoreTx
    \/ SetAdminTx
    \/ NextBlock

SpecStore == Init /\ [][NextStore]_vars

(* ------------------------------------------------------------------ *)
(* The scorer alone                                                     *)
(* ------------------------------------------------------------------ *)
\* One call of each function of the scorer, by any caller with any history.
EvaluateAndStoreTx ==
    /\ \E c \in Users, h \in Histories : evaluateAndStore(c, h)
    /\ UNCHANGED <<batchVars, asked, otherVars>>

PreviewDecisionTx ==
    /\ \E h \in Histories : previewDecision(h)
    /\ UNCHANGED <<batchVars, asked, otherVars>>

NextScorer ==
    \/ EvaluateAndStoreTx
    \/ PreviewDecisionTx

SpecScorer == Init /\ [][NextScorer]_vars

(* ------------------------------------------------------------------ *)
(* The scorer, its calls recorded                                       *)
(* ------------------------------------------------------------------ *)
\* One call of each function of the scorer, by any caller with any of the
\* Submitted histories; `asked` keeps who called and with what.
EvaluateAndStoreCall ==
    /\ \E c \in Users, h \in Submitted :
          /\ evaluateAndStore(c, h)
          /\ asked' = [caller |-> c, history |-> h]
    /\ UNCHANGED <<batchVars, otherVars>>

PreviewDecisionCall ==
    /\ \E c \in Users, h \in Submitted :
          /\ previewDecision(h)
          /\ asked' = [caller |-> c, history |-> h]
    /\ UNCHANGED <<batchVars, otherVars>>

NextReplay ==
    \/ EvaluateAndStoreCall
    \/ PreviewDecisionCall

SpecReplay == Init /\ [][NextReplay]_vars

(* ------------------------------------------------------------------ *)
(* The system as the ledger's tests set it up                           *)
(* ------------------------------------------------------------------ *)
\* The state after CreditLoanTest.setUp: the ledger knows the score store,
\* the owner has funded it, and the borrower has a stored score of 700.
SetUp ==
    /\ owner = Owner
    /\ serviceFeeRate = 1000
    /\ creditScoreContract = ScoreStore
    /\ minCreditScore = 0
    /\ nextLoanId = 0
    /\ loans = [i \in LoanIds |-> ZeroLoan]
    /\ borrowerLoans = [a \in Addr |-> <<>>]
    /\ liquidity = MaxLiquidity
    /\ admin = Owner
    /\ creditScore = [a \in Addr |-> IF a = B1 THEN 700 ELSE 0]
    /\ lastUpdated = [a \in Addr |-> IF a = B1 THEN 1 ELSE 0]
    /\ now = 1
    /\ last = Call("setCreditScore", "ok")
    /\ lastDecision = [a \in Users |-> ZeroDecision]
    /\ ret = ZeroDecision
    /\ asked = Unasked
    /\ Idle
    /\ pending = [k \in 1..MaxPending |-> None]
    /\ start = 0
    /\ paid = 0

\* One call of each function of the scorer with a history of its tests.
EvaluateTestHistory ==
    /\ \E c \in Users, h \in TestHistories :
          /\ evaluateAndStore(c, h)
          /\ asked' = [caller |-> c, history |-> h]
    /\ UNCHANGED <<batchVars, otherVars>>

PreviewTestHistory ==
    /\ \E c \in Users, h \in TestHistories :
          /\ previewDecision(h)
          /\ asked' = [caller |-> c, history |-> h]
    /\ UNCHANGED <<batchVars, otherVars>>

\* The scorer beside the gated ledger: scores are stored, the minimum is
\* set, loans are issued, and histories are scored.
NextCross ==
    \/ SetCreditScoreTx
    \/ UpdateMinCreditScoreTx
    \/ IssueLoanTx
    \/ EvaluateTestHistory
    \/ PreviewTestHistory

SpecCross == SetUp /\ [][NextCross]_vars

\* The life of loans without cancellation: loans are issued, repaid and
\* the owner withdraws; nothing else brings tokens in.
NextRepay ==
    \/ IssueLoanTx
    \/ RepayTx
    \/ WithdrawTx

\* the borrower of loan i repays an amount between 1 and what remains,
\* holding and having approved the tokens
BorrowerRepays(i) ==
    /\ loans[i].active
    /\ loans[i].borrower \in Users
    /\ \E a \in 1..MaxAmt :
          /\ a <= getRemainingBalance(i)
          /\ repay(loans[i].borrower, i, a, "ok")
    /\ UNCHANGED <<batchVars, scorerVars, otherVars>>

\* The borrower of every active loan keeps repaying: a repayment that
\* stays possible is eventually made.
SpecRepay ==
    /\ SetUp
    /\ [][NextRepay]_vars
    /\ \A i \in LoanIds : WF_vars(BorrowerRepays(i))

(* ------------------------------------------------------------------ *)
(* The ledger's operations by what they write                           *)
(* ------------------------------------------------------------------ *)
\* The loans mapping, nextLoanId and borrowerLoans are written by
\* issueLoan, repay and cancelLoan alone: the life of loans on the funded
\* ledger of the tests.
NextLoans ==
    \/ IssueLoanTx
    \/ RepayTx
    \/ CancelLoanTx

SpecLoans == SetUp /\ [][NextLoans]_vars

\* serviceFeeRate is written by updateServiceFeeRate alone and read by
\* issueLoan alone: loans are issued and repaid while the rate is being
\* changed.
NextFees ==
    \/ UpdateServiceFeeRateTx
    \/ IssueLoanTx
    \/ RepayTx

SpecFees == SetUp /\ [][NextFees]_vars

\* The operations that take an amount, with the credit gate switched on
\* and off.
NextFunds ==
    \/ FundTx
    \/ IssueLoanTx
    \/ RepayTx
    \/ WithdrawTx
    \/ UpdateMinCreditScoreTx

SpecFunds == SetUp /\ [][NextFunds]_vars

(* ------------------------------------------------------------------ *)
(* Repayment through a token that calls the payer back                  *)
(* ------------------------------------------------------------------ *)
\* repay has no reentrancy guard.  It checks, calls
\* USDC.safeTransferFrom, and only then writes amountRepaid.  A token that
\* calls the payer inside transferFrom lets the payer call repay again
\* before the outer call has written anything.  A transaction is a stack
\* of such calls; its writes reach the ledger when the outermost call
\* returns and are dropped when any call reverts.

\* how deep repay calls nest in one transaction
MaxDepth == 2

\* the checks of repay before the transfer, on the loans mapping ls
repayChecks(ls, caller, loanId, amount) ==
    IF amount = 0 THEN "InvalidAmount"
    ELSE IF ~ls[loanId].active THEN "NoActiveLoan"
    ELSE IF ls[loanId].borrower # caller THEN "NotBorrower"
    ELSE IF amount > ls[loanId].totalOwed - ls[loanId].amountRepaid
         THEN "OverpaymentNotAllowed"
    ELSE "ok"

\* afterPullErr with the subtraction left unchecked
afterPullErr_Unchecked(loan, amount) == "ok"

\* the checked subtraction loan.totalOwed - loan.amountRepaid after
\* loan.amountRepaid += amount
afterPullErr(loan, amount) ==
    IF loan.amountRepaid + amount > loan.totalOwed THEN "Panic" ELSE "ok"

\* the Loan as repay writes it after the transfer
afterPull(loan, amount) ==
    [loan EXCEPT !.amountRepaid = @ + amount,
                 !.active = IF loan.totalOwed = loan.amountRepaid + amount
                            THEN FALSE ELSE @]

\* what no step of a repay transaction writes
outsideRepay == <<owner, serviceFeeRate, creditScoreContract, minCreditScore,
                  nextLoanId, borrowerLoans, storeVars, now, batchVars,
                  scorerVars, helperVars, walletVars>>

\* the running transaction reverts with err: its writes are dropped
Reverts(err) ==
    /\ frames' = <<>>
    /\ work' = NoWork
    /\ last' = Call("repay", err)
    /\ UNCHANGED <<loans, liquidity>>

\* An account calls repay: the checks run on the ledger as it is, and
\* the call enters safeTransferFrom.
RepayEnters ==
    /\ frames = <<>>
    /\ \E c \in Users, i \in LoanIds, a \in Amounts :
          LET err == repayChecks(loans, c, i, a) IN
          IF err = "ok"
          THEN /\ frames' = <<[caller |-> c, loanId |-> i, amount |-> a]>>
               /\ work' = [loans |-> loans, liquidity |-> liquidity]
               /\ UNCHANGED <<loans, liquidity, last>>
          ELSE Reverts(err)
    /\ UNCHANGED outsideRepay

\* Inside transferFrom the token calls the payer, and the payer calls
\* repay again.  The nested checks read what the transaction has written so
\* far; a nested revert the payer does not catch reverts the transaction
\* (one it catches leaves no trace).
RepayReenters ==
    /\ frames # <<>>
    /\ Len(frames) < MaxDepth
    /\ \E i \in LoanIds, a \in Amounts :
          LET c   == frames[Len(frames)].caller
              err == repayChecks(work.loans, c, i, a)
          IN  IF err = "ok"
              THEN /\ frames' = Append(frames, [caller |-> c, loanId |-> i,
                                                amount |-> a])
                   /\ UNCHANGED <<work, loans, liquidity, last>>
              ELSE Reverts(err)
    /\ UNCHANGED outsideRepay

\* The innermost transferFrom ends and its repay call runs to its end:
\* amountRepaid += amount, the checked subtraction, the closing of the
\* loan.  The return of the outermost call commits the transaction.
RepayReturns ==
    /\ frames # <<>>
    /\ \E tok \in PullOutcomes :
          LET f    == frames[Len(frames)]
              loan == work.loans[f.loanId]
              err  == IF tok # "ok" THEN tok ELSE afterPullErr(loan, f.amount)
              done == [loans |-> [work.loans EXCEPT
                                    ![f.loanId] = afterPull(loan, f.amount)],
                       liquidity |-> work.liquidity + f.amount]
          IN  IF err # "ok" THEN Reverts(err)
              ELSE IF Len(frames) = 1
              THEN /\ loans' = done.loans
                   /\ liquidity' = done.liquidity
                   /\ frames' = <<>>
                   /\ work' = NoWork
                   /\ last' = Call("repay", "ok")
              ELSE /\ frames' = SubSeq(frames, 1, Len(frames) - 1)
                   /\ work' = done
                   /\ UNCHANGED <<loans, liquidity, last>>
    /\ UNCHANGED outsideRepay

\* the owner issues loans between transactions
IssueLoanBetween ==
    /\ frames = <<>>
    /\ IssueLoanTx

NextReenter ==
    \/ IssueLoanBetween
    \/ RepayEnters
    \/ RepayReenters
    \/ RepayReturns

SpecReenter == SetUp /\ [][NextReenter]_vars

(* ------------------------------------------------------------------ *)
(* The page's repayLoan helper                                          *)
(* ------------------------------------------------------------------ *)
\* the arguments of the repay call that repayLoan sends
RepayArgLoanId == 1
RepayArgAmount == 4

\* ethers' parseUnits of a whole number
parseUnits(amount, decimals) == amount * 10^decimals

\* repayLoan(loanId, amount) called with signer's wallet: the allowance
\* is read and raised to amountInWei when it is below, then the repay
\* transaction is sent and the ledger executes it.
repayLoan(signer, loanId, amount) ==
    LET amountInWei == parseUnits(amount, 1)
        currentAllowance == allowance[signer]
        approved == IF currentAllowance < amountInWei
                    THEN amountInWei ELSE currentAllowance
        tok == IF approved < RepayArgAmount
               THEN "ERC20InsufficientAllowance" ELSE "ok"
        err == repayErr(signer, RepayArgLoanId, RepayArgAmount, tok)
    IN  /\ wanted' = [loanId |-> loanId, amount |-> amountInWei,
                      allowed |-> 0]
        /\ sent' = [loanId |-> RepayArgLoanId, amount |-> RepayArgAmount,
                    allowed |-> approved]
        /\ allowance' = [allowance EXCEPT
                           ![signer] = IF err = "ok"
                                       THEN approved - RepayArgAmount
                                       ELSE approved]
        /\ repay(signer, RepayArgLoanId, RepayArgAmount, tok)

\* handleSubmitRepayment: the borrower submits an amount above zero for
\* the loan selected on the page
RepayLoanSubmitted ==
    /\ \E signer \in Users, loanId \in LoanIds, amount \in 1..MaxAmt :
          repayLoan(signer, loanId, amount)
    /\ UNCHANGED <<batchVars, scorerVars, reentryVars, walletVars>>

NextHelper ==
    \/ IssueLoanTx
    \/ RepayLoanSubmitted

SpecHelper == SetUp /\ [][NextHelper]_vars

(* ------------------------------------------------------------------ *)
(* WalletProvider                                                       *)
(* ------------------------------------------------------------------ *)
\* The provider's handlers are asynchronous: each runs to its next await
\* in one step, and the wallet's answers arrive in any order.

\* how many requests of one kind await the wallet's answer
MaxFlight == 2

\* the accounts of the wallet
Accounts == {"0xA", "0xB"}

\* (parseInt(balanceWei, 16) / 10^18).toFixed(6) of what eth_getBalance
\* answers for address: the accounts hold 1 and 2 tokens
Shown(address) == IF address = "0xA" THEN "1.000000" ELSE "2.000000"

outsideWallet == <<ledgerVars, liquidity, storeVars, now, last, batchVars,
                   scorerVars, reentryVars, helperVars>>

\* fetchBalance(address) up to its await
fetchBalance(address, fromConnect) ==
    /\ Len(fetches) < MaxFlight
    /\ isFetchingBalance' = TRUE
    /\ fetches' = Append(fetches, [address |-> address,
                                   connect |-> fromConnect])

\* connectWallet up to the await of eth_requestAccounts
ConnectWallet ==
    /\ connecting < MaxFlight
    /\ isConnecting' = TRUE
    /\ connecting' = connecting + 1
    /\ UNCHANGED <<walletAddress, balance, isFetchingBalance, fetches>>
    /\ UNCHANGED outsideWallet

\* the wallet answers with its account and switches the chain:
\* connectWallet sets walletAddress and awaits fetchBalance
WalletAnswers ==
    /\ connecting > 0
    /\ \E a \in Accounts :
          /\ walletAddress' = a
          /\ fetchBalance(a, TRUE)
    /\ connecting' = connecting - 1
    /\ UNCHANGED <<balance, isConnecting>>
    /\ UNCHANGED outsideWallet

\* the user rejects the request or the chain switch: catch, then finally
WalletRefuses ==
    /\ connecting > 0
    /\ connecting' = connecting - 1
    /\ isConnecting' = FALSE
    /\ UNCHANGED <<walletAddress, balance, isFetchingBalance, fetches>>
    /\ UNCHANGED outsideWallet

disconnectWallet ==
    /\ walletAddress' = ""
    /\ balance' = ResetBalance
    /\ UNCHANGED <<isConnecting, isFetchingBalance, fetches, connecting>>

DisconnectWallet ==
    /\ disconnectWallet
    /\ UNCHANGED outsideWallet

\* refreshBalance with a wallet connected
RefreshBalance ==
    /\ walletAddress # ""
    /\ fetchBalance(walletAddress, FALSE)
    /\ UNCHANGED <<walletAddress, balance, isConnecting, connecting>>
    /\ UNCHANGED outsideWallet

\* handleAccountsChanged(accounts), where it does anything
AccountsChanged ==
    /\ \E accounts \in {<<>>} \cup {<<a>> : a \in Accounts} :
          IF Len(accounts) = 0
          THEN disconnectWallet
          ELSE /\ accounts[1] # walletAddress
               /\ walletAddress' = accounts[1]
               /\ fetchBalance(accounts[1], FALSE)
               /\ UNCHANGED <<balance, isConnecting, connecting>>
    /\ UNCHANGED outsideWallet

\* eth_getBalance of the k-th waiting fetchBalance answers or fails:
\* setBalance, then finally; connectWallet awaiting it runs its finally
FetchCompletes ==
    /\ \E k \in 1..Len(fetches), answered \in BOOLEAN :
          LET f == fetches[k] IN
          /\ balance' = IF answered THEN Shown(f.address) ELSE ResetBalance
          /\ isFetchingBalance' = FALSE
          /\ isConnecting' = IF f.connect THEN FALSE ELSE isConnecting
          /\ fetches' = SubSeq(fetches, 1, k - 1)
                         \o SubSeq(fetches, k + 1, Len(fetches))
    /\ UNCHANGED <<walletAddress, connecting>>
    /\ UNCHANGED outsideWallet

NextWallet ==
    \/ ConnectWallet
    \/ WalletAnswers
    \/ WalletRefuses
    \/ DisconnectWallet
    \/ RefreshBalance
    \/ AccountsChanged
    \/ FetchCompletes

SpecWallet == Init /\ [][NextWallet]_vars

(* ------------------------------------------------------------------ *)
(* Payout calls submitted together                                      *)
(* ------------------------------------------------------------------ *)
\* The owner submits MaxPending issueLoan / withdraw calls against a ledger
\* holding `start`: each amount fits the balance, together they exceed it.
\* The chain executes them one at a time, in any order.
Payouts(bal) ==
    [op : {"issueLoan", "withdraw"}, who : {B1}, amt : 1..bal]

RECURSIVE SumAmt(_, _)
SumAmt(batch, k) == IF k = 0 THEN 0 ELSE batch[k].amt + SumAmt(batch, k - 1)

InitConc ==
    /\ Deployed
    /\ liquidity \in 1..MaxLiquidity
    /\ start = liquidity
    /\ paid = 0
    /\ pending \in [1..MaxPending -> Payouts(liquidity)]
    /\ SumAmt(pending, MaxPending) > liquidity

\* the chain executes the k-th submitted call
ExecIssueLoan(k) ==
    /\ pending[k].op = "issueLoan"
    /\ issueLoan(owner, pending[k].who, pending[k].amt)
    /\ pending' = [pending EXCEPT ![k] = None]
    /\ paid' = IF last'.err = "ok" THEN paid + pending[k].amt ELSE paid
    /\ UNCHANGED <<start, scorerVars, otherVars>>

ExecWithdraw(k) ==
    /\ pending[k].op = "withdraw"
    /\ withdraw(owner, pending[k].amt)
    /\ pending' = [pending EXCEPT ![k] = None]
    /\ paid' = IF last'.err = "ok" THEN paid + pending[k].amt ELSE paid
    /\ UNCHANGED <<start, scorerVars, otherVars>>

NextConc ==
    \/ \E k \in 1..MaxPending : ExecIssueLoan(k)
    \/ \E k \in 1..MaxPending : ExecWithdraw(k)

SpecConc == InitConc /\ [][NextConc]_vars

(* ------------------------------------------------------------------ *)
(* Properties of the ledger                                             *)
(* ------------------------------------------------------------------ *)

\* C1: in every reachable state every loan has
\* 0 <= amountRepaid <= totalOwed.
C1_RepaidWithinOwed ==
    \A i \in LoanIds :
        /\ 0 <= loans[i].amountRepaid
        /\ loans[i].amountRepaid <= loans[i].totalOwed

\* a loan has been repaid up to exactly what it owed
C1_Witness ==
    \E i \in LoanIds :
        /\ i < nextLoanId
        /\ loans[i].totalOwed > 0
        /\ loans[i].amountRepaid = loans[i].totalOwed

\* C2: an issued loan that is inactive stays inactive under every
\* operation; a repay of a positive amount on it, by any caller and whatever
\* the token would answer, is rejected with NoActiveLoan; and a repay
\* rejected with NoActiveLoan leaves every loan's amountRepaid and the
\* liquidity unchanged.
C2_InactiveAbsorbing ==
    /\ [](\A i \in LoanIds :
             (i < nextLoanId /\ ~loans[i].active) =>
                \A c \in Users, a \in 1..MaxAmt, t \in PullOutcomes :
                    repayErr(c, i, a, t) = "NoActiveLoan")
    /\ [][ /\ \A i \in LoanIds :
                  (i < nextLoanId /\ ~loans[i].active) => ~loans'[i].active
           /\ (last' = Call("repay", "NoActiveLoan")) =>
                  /\ \A i \in LoanIds :
                        loans'[i].amountRepaid = loans[i].amountRepaid
                  /\ liquidity' = liquidity
         ]_vars

\* a repay has just been rejected with NoActiveLoan while an issued loan is
\* inactive
C2_Witness ==
    /\ last = Call("repay", "NoActiveLoan")
    /\ \E i \in LoanIds : i < nextLoanId /\ ~loans[i].active

\* C3: whenever minCreditScore > 0, whatever the rest of the ledger's
\* configuration, issueLoan for a borrower whose stored score (0 when none
\* was stored) is below minCreditScore fails and creates no loan; the error
\* is InsufficientCreditScore when no other check of issueLoan rejects the
\* call (the owner calls, the principal is positive and within the
\* liquidity, the borrower is not the zero address).
C3_GateAlwaysRejects ==
    [][ (last'.op = "issueLoan" /\ minCreditScore > 0) =>
          \A c \in Users, b \in Borrowers, p \in Amounts :
              (getCreditScore(b) < minCreditScore /\ issueLoan(c, b, p))
              => /\ last'.err # "ok"
                 /\ nextLoanId' = nextLoanId
                 /\ loans' = loans
                 /\ (c = owner /\ p > 0 /\ p <= liquidity /\ b # Zero)
                        => last'.err = "InsufficientCreditScore"
      ]_vars

\* C4: a call that reverts, whatever the operation and the reason, leaves
\* liquidity, nextLoanId, every loan, every borrower's id list,
\* serviceFeeRate and minCreditScore as they were.
C4_RejectedIsNoOp ==
    [][ (last'.err # "ok") =>
          /\ liquidity' = liquidity
          /\ nextLoanId' = nextLoanId
          /\ loans' = loans
          /\ borrowerLoans' = borrowerLoans
          /\ serviceFeeRate' = serviceFeeRate
          /\ minCreditScore' = minCreditScore
      ]_vars

\* an issueLoan has just reverted in its final transfer, after its writes
C4_Witness == last = Call("issueLoan", "ERC20InvalidReceiver")

C6_ExactLiquidityDelta ==
    [][ (last'.err = "ok") =>
          /\ (last'.op = "issueLoan") =>
                \A c \in Users, b \in Borrowers, p \in Amounts :
                    issueLoan(c, b, p) => liquidity' = liquidity - p
          /\ (last'.op = "repay") =>
                \A c \in Users, i \in LoanIds, a \in Amounts, t \in PullOutcomes :
                    repay(c, i, a, t) => liquidity' = liquidity + a
          /\ (last'.op = "fund") =>
                \A c \in Users, a \in Amounts, t \in PullOutcomes :
                    fund(c, a, t) => liquidity' = liquidity + a
          /\ (last'.op = "withdraw") =>
                \A c \in Users, a \in Amounts :
                    withdraw(c, a) => liquidity' = liquidity - a
      ]_vars

\* C7 as stated: a successful issueLoan creates a loan with
\* serviceFee = floor(principal * serviceFeeRate / 10000),
\* totalOwed = principal + serviceFee, amountRepaid = 0, active, the given
\* borrower; rate 0 gives totalOwed = principal and rate 5000 gives
\* totalOwed = 1.5 * principal.
C7_Original ==
    [][ (last'.op = "issueLoan" /\ last'.err = "ok") =>
          \A c \in Users, b \in Borrowers, p \in Amounts :
              issueLoan(c, b, p) =>
                 LET l == loans'[nextLoanId] IN
                 /\ l.serviceFee = (p * serviceFeeRate) \div 10000
                 /\ l.totalOwed = p + l.serviceFee
                 /\ l.amountRepaid = 0
                 /\ l.active
                 /\ l.borrower = b
                 /\ (serviceFeeRate = 0) => (l.totalOwed = p)
                 /\ (serviceFeeRate = 5000) => (2 * l.totalOwed = 3 * p)
      ]_vars

\* C7 amended: as C7, except that rate 5000 gives
\* totalOwed = principal + floor(principal / 2), which is 1.5 * principal
\* when the principal is even.
C7_FeeAtIssuance ==
    [][ (last'.op = "issueLoan" /\ last'.err = "ok") =>
          \A c \in Users, b \in Borrowers, p \in Amounts :
              issueLoan(c, b, p) =>
                 LET l == loans'[nextLoanId] IN
                 /\ l.serviceFee = (p * serviceFeeRate) \div 10000
                 /\ l.totalOwed = p + l.serviceFee
                 /\ l.amountRepaid = 0
                 /\ l.active
                 /\ l.borrower = b
                 /\ (serviceFeeRate = 0) => (l.totalOwed = p)
                 /\ (serviceFeeRate = 5000) => (l.totalOwed = p + (p \div 2))
                 /\ (serviceFeeRate = 5000 /\ p % 2 = 0)
                        => (2 * l.totalOwed = 3 * p)
      ]_vars

\* a loan has just been issued with a service fee above zero
C7_Witness ==
    /\ last = Call("issueLoan", "ok")
    /\ nextLoanId > 0
    /\ loans[nextLoanId - 1].serviceFee > 0
    /\ loans[nextLoanId - 1].active

\* C8: the id, borrower, principal, serviceFee and totalOwed of an issued
\* loan are the same after every step; updateServiceFeeRate in particular
\* changes none of them.
C8_TermsFrozen ==
    [][ \A i \in LoanIds :
          (i < nextLoanId /\ loans'[i] # loans[i]) =>
             /\ loans'[i].id = loans[i].id
             /\ loans'[i].borrower = loans[i].borrower
             /\ loans'[i].principal = loans[i].principal
             /\ loans'[i].serviceFee = loans[i].serviceFee
             /\ loans'[i].totalOwed = loans[i].totalOwed
      ]_vars

\* the rate has just been updated and an active loan keeps a fee that the
\* new rate would not give
C8_Witness ==
    /\ last = Call("updateServiceFeeRate", "ok")
    /\ \E i \in LoanIds :
          /\ i < nextLoanId
          /\ loans[i].active
          /\ loans[i].serviceFee
                 # (loans[i].principal * serviceFeeRate) \div 10000

\* C9: an active loan has amountRepaid < totalOwed; a repay that leaves a
\* remaining balance above zero keeps the loan active; a loan that turns
\* inactive in a step other than a cancelLoan has amountRepaid = totalOwed.
C9_ClosedExactlyAtZero ==
    /\ [](\A i \in LoanIds :
              loans[i].active => loans[i].amountRepaid < loans[i].totalOwed)
    /\ [][ \A i \in LoanIds :
              loans[i].active =>
                 /\ (last'.op = "repay"
                         /\ loans'[i].amountRepaid < loans'[i].totalOwed)
                       => loans'[i].active
                 /\ (~loans'[i].active /\ last'.op # "cancelLoan")
                       => loans'[i].amountRepaid = loans'[i].totalOwed
         ]_vars

\* a repay has just closed a loan, and another loan, partly repaid, is
\* still active
C9_Witness ==
    /\ last = Call("repay", "ok")
    /\ \E i \in LoanIds :
          /\ i < nextLoanId
          /\ ~loans[i].active
          /\ loans[i].amountRepaid = loans[i].totalOwed
    /\ \E j \in LoanIds :
          /\ loans[j].active
          /\ loans[j].amountRepaid > 0

\* C10: on an active loan, a repay by the borrower of more than
\* totalOwed - amountRepaid fails with OverpaymentNotAllowed and changes
\* no loan and no liquidity; a repay of exactly totalOwed - amountRepaid
\* whose token transfer goes through succeeds and closes the loan.
C10_OverpayRejectedExactAccepted ==
    [][ (last'.op = "repay") =>
          \A i \in LoanIds, c \in Users, a \in Amounts, t \in PullOutcomes :
              (loans[i].active /\ c = loans[i].borrower /\ repay(c, i, a, t))
              => /\ (a > loans[i].totalOwed - loans[i].amountRepaid)
                       => /\ last'.err = "OverpaymentNotAllowed"
                          /\ loans' = loans
                          /\ liquidity' = liquidity
                 /\ (a = loans[i].totalOwed - loans[i].amountRepaid
                         /\ t = "ok")
                       => /\ last'.err = "ok"
                          /\ ~loans'[i].active
                          /\ loans'[i].amountRepaid = loans[i].totalOwed
      ]_vars

\* a repay has just been rejected with OverpaymentNotAllowed
C10_Witness ==
    /\ last = Call("repay", "OverpaymentNotAllowed")
    /\ \E i \in LoanIds : loans[i].active

\* C11 as stated: a repay by a caller other than the loan's recorded
\* borrower, whatever the amount, never succeeds and changes neither the
\* loan's amountRepaid nor the liquidity; it fails with NotBorrower on an
\* active loan and with NoActiveLoan on an inactive or never-issued id.
C11_Original ==
    [][ (last'.op = "repay") =>
          \A i \in LoanIds, c \in Users, a \in Amounts, t \in PullOutcomes :
              (c # loans[i].borrower /\ repay(c, i, a, t))
              => /\ last'.err = IF loans[i].active THEN "NotBorrower"
                                ELSE "NoActiveLoan"
                 /\ loans'[i].amountRepaid = loans[i].amountRepaid
                 /\ liquidity' = liquidity
      ]_vars

\* C11 amended: a repay by a caller other than the loan's recorded borrower
\* is always rejected: with a positive amount, with NotBorrower on an
\* active loan and with NoActiveLoan on an inactive or never-issued id;
\* with a zero amount, with InvalidAmount.  A repay so rejected changes no
\* loan's amountRepaid and not the liquidity.
C11_OnlyBorrowerRepays ==
    /\ [](\A i \in LoanIds, c \in Users, a \in Amounts, t \in PullOutcomes :
             (c # loans[i].borrower) =>
                repayErr(c, i, a, t) = IF a = 0 THEN "InvalidAmount"
                                       ELSE IF loans[i].active THEN "NotBorrower"
                                       ELSE "NoActiveLoan")
    /\ [][ (last'.op = "repay"
               /\ last'.err \in {"InvalidAmount", "NotBorrower", "NoActiveLoan"}) =>
              /\ \A i \in LoanIds :
                    loans'[i].amountRepaid = loans[i].amountRepaid
              /\ liquidity' = liquidity
         ]_vars

\* the owner's repay of a borrower's active loan has just been rejected
\* with NotBorrower
C11_Witness ==
    /\ last = Call("repay", "NotBorrower")
    /\ \E i \in LoanIds : loans[i].active /\ loans[i].borrower = B1

\* C12: fund, issueLoan, cancelLoan, withdraw, updateServiceFeeRate,
\* updateMinCreditScore and setCreditScoreContract called by anyone but the
\* owner are rejected as unauthorized, for every argument and in every
\* state, and a call so rejected leaves the ledger's storage and its
\* liquidity unchanged.
C12_OnlyOwnerAdministers ==
    /\ [](\A c \in Users \ {owner} :
             LET denied == "OwnableUnauthorizedAccount" IN
             /\ \A a \in Amounts, t \in PullOutcomes : fundErr(c, a, t) = denied
             /\ \A b \in Borrowers, p \in Amounts : issueLoanErr(c, b, p) = denied
             /\ \A i \in LoanIds : cancelLoanErr(c, i) = denied
             /\ \A a \in Amounts : withdrawErr(c, a) = denied
             /\ \A r \in Rates : updateServiceFeeRateErr(c, r) = denied
             /\ onlyOwnerErr(c) = denied)
    /\ [][ (last'.err = "OwnableUnauthorizedAccount") =>
              UNCHANGED <<ledgerVars, liquidity>>
         ]_vars

\* a setCreditScoreContract by a caller who is not the owner has just been
\* rejected
C12_Witness == last = Call("setCreditScoreContract", "OwnableUnauthorizedAccount")

\* C13: cancelLoan by the owner on an active loan changes that loan's
\* active flag to false and nothing else of the ledger (no other field of
\* the loan, no other loan, not the liquidity, nextLoanId or any borrower's
\* id list); on an inactive or never-issued id it fails with NoActiveLoan
\* and changes nothing.
C13_CancelOnlyDeactivates ==
    [][ (last'.op = "cancelLoan") =>
          \A i \in LoanIds :
              cancelLoan(owner, i) =>
                 /\ IF loans[i].active
                    THEN /\ last'.err = "ok"
                         /\ loans' = [loans EXCEPT ![i].active = FALSE]
                    ELSE /\ last'.err = "NoActiveLoan"
                         /\ loans' = loans
                 /\ liquidity' = liquidity
                 /\ nextLoanId' = nextLoanId
                 /\ borrowerLoans' = borrowerLoans
      ]_vars

\* a partly repaid loan has just been cancelled and keeps what was repaid
C13_Witness ==
    /\ last = Call("cancelLoan", "ok")
    /\ \E i \in LoanIds :
          /\ i < nextLoanId
          /\ ~loans[i].active
          /\ loans[i].amountRepaid > 0
          /\ loans[i].amountRepaid < loans[i].totalOwed

\* C14: getRemainingBalance(loanId) is totalOwed - amountRepaid (above
\* zero) for an active loan and 0 for every inactive or never-issued id,
\* cancelled loans with amountRepaid < totalOwed included.
C14_RemainingBalance ==
    \A i \in LoanIds :
        /\ loans[i].active =>
              /\ getRemainingBalance(i)
                    = loans[i].totalOwed - loans[i].amountRepaid
              /\ getRemainingBalance(i) > 0
        /\ (~loans[i].active \/ i >= nextLoanId) => getRemainingBalance(i) = 0

\* a cancelled loan that still owes something, next to an active loan
C14_Witness ==
    /\ \E i \in LoanIds :
          /\ i < nextLoanId
          /\ ~loans[i].active
          /\ loans[i].amountRepaid < loans[i].totalOwed
          /\ getRemainingBalance(i) = 0
    /\ \E j \in LoanIds : loans[j].active /\ getRemainingBalance(j) > 0

\* C15: nextLoanId starts at 0, grows by one in every successful issueLoan
\* and is unchanged by every other call, failed issueLoan calls included;
\* every id below nextLoanId holds a loan whose id field is that id, every
\* id from nextLoanId on was never written, and an issued loan's id is
\* never rewritten.
C15_SequentialIds ==
    /\ [](/\ nextLoanId >= 0
          /\ \A i \in LoanIds :
                IF i < nextLoanId THEN loans[i].id = i /\ loans[i].principal > 0
                ELSE loans[i] = ZeroLoan)
    /\ [][ /\ nextLoanId' = IF last' = Call("issueLoan", "ok")
                            THEN nextLoanId + 1 ELSE nextLoanId
           /\ \A i \in LoanIds :
                 (i < nextLoanId) => loans'[i].id = loans[i].id
         ]_vars

\* two loans have been issued and a further issueLoan has just failed
C15_Witness ==
    /\ nextLoanId = 2
    /\ loans[0].id = 0
    /\ loans[1].id = 1
    /\ last.op = "issueLoan"
    /\ last.err # "ok"

\* the ids below n of the loans issued to b, in issuance order
IssuedTo(b, n) ==
    SelectSeq([k \in 1..n |-> k - 1], LAMBDA i : loans[i].borrower = b)

\* C16: getBorrowerLoans(b) is exactly the ids of the loans issued to b, in
\* issuance order (so each id is in one list, once); a list only ever
\* grows at its end.
C16_BorrowerIndexExact ==
    /\ [](\A b \in Addr : getBorrowerLoans(b) = IssuedTo(b, nextLoanId))
    /\ [][ \A b \in Addr :
              /\ Len(borrowerLoans'[b]) >= Len(borrowerLoans[b])
              /\ SubSeq(borrowerLoans'[b], 1, Len(borrowerLoans[b]))
                    = borrowerLoans[b]
         ]_vars

\* a borrower holds two loans, the first of them cancelled or repaid, and
\* another address holds none
C16_Witness ==
    /\ getBorrowerLoans(B1) = <<0, 1>>
    /\ ~loans[0].active
    /\ getBorrowerLoans(Owner) = <<>>

\* C17: serviceFeeRate is within 0..5000 in every state and every loan has
\* 2 * serviceFee <= principal; updateServiceFeeRate by the owner with
\* newRate > 5000 fails with InvalidServiceFeeRate and leaves the rate, and
\* with newRate <= 5000 succeeds and sets it.
C17_FeeRateCapped ==
    /\ [](/\ serviceFeeRate \in 0..5000
          /\ \A i \in LoanIds : 2 * loans[i].serviceFee <= loans[i].principal)
    /\ [][ (last'.op = "updateServiceFeeRate") =>
              \A r \in Rates :
                  updateServiceFeeRate(owner, r) =>
                     IF r > 5000
                     THEN /\ last'.err = "InvalidServiceFeeRate"
                          /\ serviceFeeRate' = serviceFeeRate
                     ELSE /\ last'.err = "ok"
                          /\ serviceFeeRate' = r
         ]_vars

\* a rate above the cap has just been rejected while the rate stands at the
\* cap, and a loan carries a fee of exactly half its principal
C17_Witness ==
    /\ last = Call("updateServiceFeeRate", "InvalidServiceFeeRate")
    /\ serviceFeeRate = 5000
    /\ \E i \in LoanIds :
          loans[i].serviceFee > 0 /\ 2 * loans[i].serviceFee = loans[i].principal

\* C19: a zero amount is rejected with InvalidAmount in every state:
\* fund(0), issueLoan(b, 0) and withdraw(0) by the owner, and repay(id, 0)
\* by any caller on any id; a call rejected with InvalidAmount leaves the
\* ledger's storage and its liquidity unchanged.
C19_ZeroAmountRejected ==
    /\ [](/\ \A t \in PullOutcomes : fundErr(owner, 0, t) = "InvalidAmount"
          /\ \A b \in Borrowers : issueLoanErr(owner, b, 0) = "InvalidAmount"
          /\ withdrawErr(owner, 0) = "InvalidAmount"
          /\ \A c \in Users, i \in LoanIds, t \in PullOutcomes :
                repayErr(c, i, 0, t) = "InvalidAmount")
    /\ [][ (last'.err = "InvalidAmount") =>
              UNCHANGED <<ledgerVars, liquidity>>
         ]_vars

\* a repay of zero has just been rejected while a loan is active,
\* the gate is on and the ledger holds funds
C19_Witness ==
    /\ last = Call("repay", "InvalidAmount")
    /\ liquidity > 0
    /\ minCreditScore > 0
    /\ \E i \in LoanIds : loans[i].active

\* C18: an issueLoan that passes every other check (the owner calls, the
\* principal is positive and within the liquidity, the borrower is not
\* the zero address) succeeds exactly when minCreditScore = 0 or the
\* borrower's stored score is >= minCreditScore, and fails with
\* InsufficientCreditScore otherwise.
C18_GateExact ==
    [][ (last'.op = "issueLoan") =>
          \A b \in Borrowers \ {Zero}, p \in 1..MaxAmt :
              (p <= liquidity /\ issueLoan(owner, b, p))
              => IF minCreditScore = 0 \/ getCreditScore(b) >= minCreditScore
                 THEN /\ last'.err = "ok"
                      /\ nextLoanId' = nextLoanId + 1
                 ELSE /\ last'.err = "InsufficientCreditScore"
                      /\ nextLoanId' = nextLoanId
      ]_vars

\* a decision with 0 <= creditScore <= 1000 and 500 <= aprBps <= 2500
ScoreAndAprInRange(decision) ==
    /\ decision.creditScore \in 0..1000
    /\ decision.aprBps \in 500..2500

\* C20: the decision returned by a successful previewDecision or
\* evaluateAndStore, and every decision stored, has 0 <= creditScore <= 1000
\* and 500 <= aprBps <= 2500.
C20_ScoreAndAprBounded ==
    /\ (last.op \in {"previewDecision", "evaluateAndStore"} /\ last.err = "ok")
          => ScoreAndAprInRange(ret)
    /\ \A u \in Users :
          lastDecision[u] # ZeroDecision => ScoreAndAprInRange(lastDecision[u])

\* a history that scores above the clamp has just been evaluated, and
\* another subject holds a decision with a score below 650
C20_Witness ==
    /\ last = Call("evaluateAndStore", "ok")
    /\ ret.creditScore = 1000
    /\ ret.aprBps = 1000
    /\ \E u \in Users :
          /\ lastDecision[u] # ZeroDecision
          /\ lastDecision[u].creditScore < 650
          /\ lastDecision[u].aprBps > 1500
(* ------------------------------------------------------------------ *)
(* Properties of the scorer's calls                                     *)
(* ------------------------------------------------------------------ *)
\* the scorer's last call was recorded and returned a decision
Answered ==
    /\ last.op \in {"evaluateAndStore", "previewDecision"}
    /\ last.err = "ok"

\* C21: the decision is a function of the history alone.  Whoever calls,
\* whatever is stored and however many calls came before, a call that
\* returns a decision returns _buildDecision of its history, the same for
\* previewDecision and evaluateAndStore; and two calls in a row with the
\* same history, of either function and by any callers, return the same
\* decision (all five fields).
C21_DecisionOfHistoryAlone ==
    /\ [](Answered => ret = _buildDecision(asked.history))
    /\ [][ (/\ Answered
            /\ Answered'
            /\ asked'.history = asked.history) => ret' = ret ]_vars

\* previewDecision by the borrower returns what the owner's evaluateAndStore
\* of the same history stored, while the borrower's own stored decision is
\* another one
C21_Witness ==
    /\ last = Call("previewDecision", "ok")
    /\ asked.caller = B1
    /\ lastDecision[Owner] = ret
    /\ lastDecision[B1] # ZeroDecision
    /\ lastDecision[B1] # ret

\* C22: previewDecision changes no stored state; a successful
\* evaluateAndStore by caller c overwrites exactly lastDecision[c] with the
\* decision it returns and leaves every other subject's entry as it was;
\* getLastDecision(s) is all-zero at deployment and changes only when s
\* stores a decision, to that decision.
C22_StoreFrame ==
    /\ \A s \in Users : getLastDecision(s) = ZeroDecision
    /\ [][ /\ last'.op = "previewDecision"
              => UNCHANGED <<lastDecision, ledgerVars, storeVars, liquidity>>
           /\ last' = Call("evaluateAndStore", "ok")
              => lastDecision' =
                    [lastDecision EXCEPT ![asked'.caller] = ret']
           /\ \A s \in Users :
                 getLastDecision(s)' # getLastDecision(s)
                 => /\ last' = Call("evaluateAndStore", "ok")
                    /\ asked'.caller = s
                    /\ getLastDecision(s)' = ret' ]_vars

\* the borrower has overwritten a decision of theirs with another one
\* while the owner's stored decision is a third one
C22_Witness ==
    /\ last = Call("evaluateAndStore", "ok")
    /\ asked.caller = B1
    /\ getLastDecision(B1) = ret
    /\ getLastDecision(Owner) # ZeroDecision
    /\ getLastDecision(Owner) # ret

\* the condition of the revert of _buildDecision
Malformed(history) ==
    \/ Len(history.platforms) = 0
    \/ history.lookbackMonths = 0
    \/ history.snapshotTimestamp = 0

\* C23: previewDecision and evaluateAndStore fail with InvalidHistory
\* exactly when platforms is empty or lookbackMonths is 0 or
\* snapshotTimestamp is 0, whatever the other fields are; a rejected
\* evaluateAndStore leaves every stored last decision unchanged.
C23_InvalidHistoryExactly ==
    /\ [](last.op \in {"evaluateAndStore", "previewDecision"}
            => (last.err = "InvalidHistory" <=> Malformed(asked.history)))
    /\ [][ (last'.op = "evaluateAndStore" /\ last'.err # "ok")
            => UNCHANGED lastDecision ]_vars

\* evaluateAndStore of a history whose only defect is a zero
\* snapshotTimestamp was rejected, the caller having a stored decision
C23_Witness ==
    /\ last = Call("evaluateAndStore", "InvalidHistory")
    /\ Len(asked.history.platforms) > 0
    /\ asked.history.lookbackMonths > 0
    /\ getLastDecision(asked.caller) # ZeroDecision

\* C24: InvalidHistory is the scorer's only failure: every history with
\* platforms, a lookbackMonths > 0 and a snapshotTimestamp > 0 yields a
\* decision, fields at the maximum of their width included.
C24_OnlyInvalidHistoryFails ==
    (last.op \in {"evaluateAndStore", "previewDecision"}
       /\ ~Malformed(asked.history))
    => last.err = "ok"

\* C25 as stated: the lean history of the tests scores lower than the rich
\* one and gets 3 or 4 installments.
C25_Original ==
    (Answered /\ asked.history = _leanHistory)
    => /\ ret.creditScore < _buildDecision(_richHistory).creditScore
       /\ ret.repaymentCount \in {3, 4}

\* C25: the lean history of the tests (one platform, 3,000 USDC, 6 months,
\* 8 samples, 8700 bps, last payout one day before the snapshot) scores
\* 861, lower than the rich history, and gets 6 installments over 180 days.
C25_LeanDecision ==
    (Answered /\ asked.history = _leanHistory)
    => /\ ret.creditScore = 861
       /\ ret.creditScore < _buildDecision(_richHistory).creditScore
       /\ ret.repaymentCount = 6
       /\ ret.repaymentPeriodDays = 180

\* the lean history was scored
C25_Witness == Answered /\ asked.history = _leanHistory

\* C26: the rich history of the tests (three platforms, 12,500 / 6,200 /
\* 9,800 USDC, lookback 12 months, snapshot four hours after the freshest
\* payout) gets creditScore >= 700, aprBps <= 1500, 6 installments over 180
\* days, and evaluateAndStore leaves the caller's stored last decision equal
\* to the returned one.
C26_RichDecision ==
    /\ (Answered /\ asked.history = _richHistory)
       => /\ ret.creditScore >= 700
          /\ ret.aprBps <= 1500
          /\ ret.repaymentCount = 6
          /\ ret.repaymentPeriodDays = 180
    /\ (last = Call("evaluateAndStore", "ok") /\ asked.history = _richHistory)
       => /\ getLastDecision(asked.caller) = ret
          /\ getLastDecision(asked.caller).borrowingLimit = 28500 * 40

\* the rich history was evaluated and stored
C26_Witness ==
    /\ last = Call("evaluateAndStore", "ok")
    /\ asked.history = _richHistory

\* the decisions the scorer holds or has just returned
Decisions == ({ret} \cup {getLastDecision(u) : u \in Users}) \ {ZeroDecision}

\* _schedule has the three tiers at every score
ScheduleOfEveryScore ==
    \A score \in 0..MAX_SCORE :
        /\ _schedule(score).installments =
              (IF score >= 800 THEN 6 ELSE IF score >= 650 THEN 4 ELSE 3)
        /\ _schedule(score).totalDays = _schedule(score).installments * 30

\* C27: every decision has repaymentCount 6 when creditScore >= 800, 4 when
\* 650 <= creditScore < 800 and 3 below 650, and repaymentPeriodDays =
\* repaymentCount * 30, so (count, days) is (3, 90), (4, 120) or (6, 180);
\* of two decisions the one with the higher score never has fewer
\* installments.
C27_ScheduleByScore ==
    /\ ScheduleOfEveryScore
    /\ \A d \in Decisions :
          /\ d.repaymentCount =
                (IF d.creditScore >= 800 THEN 6
                 ELSE IF d.creditScore >= 650 THEN 4 ELSE 3)
          /\ d.repaymentPeriodDays = d.repaymentCount * 30
          /\ <<d.repaymentCount, d.repaymentPeriodDays>>
                \in {<<3, 90>>, <<4, 120>>, <<6, 180>>}
    /\ \A d1, d2 \in Decisions :
          d1.creditScore >= d2.creditScore
          => d1.repaymentCount >= d2.repaymentCount

\* decisions of the three tiers are held together
C27_Witness ==
    /\ ret.repaymentCount = 3
    /\ getLastDecision(B1).repaymentCount = 4
    /\ getLastDecision(Owner).repaymentCount = 6

\* the sequences with the receipts of `platforms` in another order
Reorderings(platforms) ==
    { [i \in 1..Len(platforms) |-> platforms[p[i]]] :
        p \in Permutations(1..Len(platforms)) }

\* how a call with `history` ends and the decision it returns
Outcome(history) ==
    [err |-> _buildDecisionErr(history),
     decision |-> IF _buildDecisionErr(history) = "ok"
                  THEN _buildDecision(history) ELSE ZeroDecision]

\* every history of the model ends the same way in every order of its
\* receipts
EveryOrderSameOutcome ==
    \A h \in Histories \cup Submitted :
        ~Malformed(h)
        => \A q \in Reorderings(h.platforms) :
              Outcome([h EXCEPT !.platforms = q]) = Outcome(h)

\* C28: the decision does not depend on the order of the receipts: after
\* previewDecision of a history with platforms, lookbackMonths > 0 and
\* snapshotTimestamp > 0, the call with the receipts in any other order
\* ends the same way and returns the same decision.
C28_OrderIrrelevant ==
    /\ EveryOrderSameOutcome
    /\ (last.op = "previewDecision" /\ ~Malformed(asked.history))
       => \A q \in Reorderings(asked.history.platforms) :
             Outcome([asked.history EXCEPT !.platforms = q])
                = [err |-> last.err, decision |-> ret]

\* a history of three different receipts was previewed
C28_Witness ==
    /\ last = Call("previewDecision", "ok")
    /\ Len(asked.history.platforms) = 3
    /\ asked.history.platforms[1] # asked.history.platforms[2]
    /\ asked.history.platforms[2] # asked.history.platforms[3]

(* ------------------------------------------------------------------ *)
(* The scoring formula                                                  *)
(* ------------------------------------------------------------------ *)
Min(a, b) == IF a < b THEN a ELSE b

RECURSIVE SeqSum(_)
SeqSum(q) == IF q = <<>> THEN 0 ELSE Head(q) + SeqSum(Tail(q))

\* the largest lastPayoutEpoch of the receipts
LatestPayout(platforms) ==
    CHOOSE t \in {platforms[i].lastPayoutEpoch : i \in 1..Len(platforms)} :
        \A i \in 1..Len(platforms) : platforms[i].lastPayoutEpoch <= t

\* the freshness component of the documented scoring algorithm
FormulaFreshness(snapshot, freshest) ==
    IF freshest = 0 \/ snapshot <= freshest THEN 150
    ELSE IF (snapshot - freshest) \div 86400 >= 90 THEN 0
    ELSE 150 - (((snapshot - freshest) \div 86400) * 150) \div 90

\* the five other components of the documented scoring algorithm, amounts
\* in whole USDC
FormulaBase(h) ==
    LET n == Len(h.platforms)
        volume == SeqSum([i \in 1..n |-> h.platforms[i].totalEarnedUsdc])
        weighted == SeqSum([i \in 1..n |->
                       h.platforms[i].onTimeRatioBps
                          * h.platforms[i].totalEarnedUsdc])
        samples == SeqSum([i \in 1..n |-> h.platforms[i].csvSampleCount])
        avgOnTimeBps == IF volume = 0 THEN 10000 ELSE weighted \div volume
    IN  Min(400, (volume \div h.lookbackMonths) * 12)
        + Min(150, h.lookbackMonths * 12)
        + Min(200, n * 70)
        + Min(150, (avgOnTimeBps * 150) \div 10000)
        + Min(150, samples * 5)

FormulaScore(h) ==
    Min(1000, FormulaBase(h)
                + FormulaFreshness(h.snapshotTimestamp, LatestPayout(h.platforms)))

\* the documented borrowing limit, 40% of the earnings, in units of 1e4
\* tokens, of which a whole USDC is 100
FormulaLimit(h) ==
    LET n == Len(h.platforms)
        volume == SeqSum([i \in 1..n |-> h.platforms[i].totalEarnedUsdc])
    IN  ((volume * 100) * 40) \div 100

\* every history of the model that yields a decision yields the score and
\* the limit of the formula
FormulaOfEveryHistory ==
    \A h \in Histories \cup Submitted :
        _buildDecisionErr(h) = "ok"
        => /\ _buildDecision(h).creditScore = FormulaScore(h)
           /\ _buildDecision(h).borrowingLimit = FormulaLimit(h)

\* C31: the creditScore of a returned decision is min(1000, income + length
\* + diversity + reliability + quality + freshness) with the six capped
\* components of the formula and truncating division, and its
\* borrowingLimit is floor(totalVolume * 40 / 100), whatever the score.
C31_ScoreFormula ==
    /\ FormulaOfEveryHistory
    /\ Answered
       => /\ ret.creditScore = FormulaScore(asked.history)
          /\ ret.borrowingLimit = FormulaLimit(asked.history)

\* a history of one platform that paid nothing was evaluated: no income,
\* no borrowing limit
C31_Witness ==
    /\ last = Call("evaluateAndStore", "ok")
    /\ Len(asked.history.platforms) = 1
    /\ ret.borrowingLimit = 0
    /\ ret.creditScore = 307

\* the snapshots and payouts the freshness rule is checked on: no payout,
\* payouts after and at the snapshot, and payouts from 0 to 99 days old, at
\* the start and at the last second of the day
FreshnessCases ==
    {0, Snapshot + Day}
    \cup {Snapshot - (d * Day + e) : d \in 0..99, e \in {0, Day - 1}}

DaysStale(payout) == (Snapshot - payout) \div Day

\* _freshnessScore is the documented rule on every case, within
\* [0, 150], and never higher for staler data; the payout it is given is
\* the latest of the receipts
FreshnessOfEveryCase ==
    /\ \A t \in FreshnessCases :
          /\ _freshnessScore(Snapshot, t) = FormulaFreshness(Snapshot, t)
          /\ _freshnessScore(Snapshot, t) \in 0..150
    /\ \A t1, t2 \in FreshnessCases \ {0, Snapshot + Day} :
          DaysStale(t1) <= DaysStale(t2)
          => _freshnessScore(Snapshot, t1) >= _freshnessScore(Snapshot, t2)
    /\ \A h \in Histories \cup Submitted :
          Len(h.platforms) > 0
          => freshestPayout(h.platforms, Len(h.platforms))
                = LatestPayout(h.platforms)

\* C32: the freshness component is 150 when the freshest payout is 0 or not
\* before the snapshot, 0 from 90 days of staleness on, and 150 -
\* floor(daysStale * 150 / 90) in between; it lies in [0, 150], never rises
\* with daysStale, and is taken from the latest payout of all receipts: the
\* score of every returned decision is the five other components plus it.
C32_Freshness ==
    /\ FreshnessOfEveryCase
    /\ Answered
       => LET freshness ==
                  _freshnessScore(asked.history.snapshotTimestamp,
                                  LatestPayout(asked.history.platforms))
          IN  /\ freshness \in 0..150
              /\ ret.creditScore =
                    Min(MAX_SCORE, FormulaBase(asked.history) + freshness)

\* a history whose latest payout is 45 days old was previewed: the idle
\* platform first, a second idle platform after it
C32_Witness ==
    /\ last = Call("previewDecision", "ok")
    /\ LatestPayout(asked.history.platforms) = Snapshot - 45 * Day
    /\ asked.history.snapshotTimestamp = Snapshot
    /\ ret.creditScore = 307

\* _deriveApr follows the line from 2500 bps down to 1000 bps
AprOfEveryScore ==
    \A score \in 0..MAX_SCORE :
        /\ _deriveApr(score) = 2500 - (score * 1500) \div 1000
        /\ _deriveApr(score) >= 1000
        /\ score > 0 => _deriveApr(score) <= _deriveApr(score - 1)

C33_ReadsBackLastWrite ==
    /\ \A u \in Addr : getCreditScorePair(u) = <<0, 0>>
    /\ [][ /\ \A c \in Users, u \in StoreUsers, sc \in Scores :
                 (setCreditScore(c, u, sc)
                    /\ setCreditScoreErr(c, u, sc) = "ok")
                 => /\ getCreditScorePair(u)' = <<sc, now>>
                    /\ \A v \in Addr \ {u} :
                          getCreditScorePair(v)' = getCreditScorePair(v)
           /\ \A u \in Addr :
                 getCreditScorePair(u)' # getCreditScorePair(u)
                 => last' = Call("setCreditScore", "ok") ]_vars

\* the borrower's score of time 1 was overwritten at time 2 while the
\* owner's own entry of time 1 stays
C33_Witness ==
    /\ last = Call("setCreditScore", "ok")
    /\ getCreditScorePair(B1) = <<650, 2>>
    /\ getCreditScorePair(Owner) = <<700, 1>>

\* C34: setCreditScore fails, changing no score and no timestamp, when the
\* caller is not the admin ("Not authorized"), else when the user is the
\* zero address ("Invalid user"), else when the score is 0 ("Score must be
\* > 0"); so a stored score is 0 exactly for a user never scored, and a
\* score once set is never 0 again.
C34_RejectsAndNeverZero ==
    /\ [](/\ \A c \in Users, u \in StoreUsers, sc \in Scores :
              /\ (c # admin \/ u = Zero \/ sc = 0)
                 => setCreditScoreErr(c, u, sc) # "ok"
              /\ c # admin => setCreditScoreErr(c, u, sc) = "Not authorized"
              /\ (c = admin /\ u = Zero)
                 => setCreditScoreErr(c, u, sc) = "Invalid user"
              /\ (c = admin /\ u # Zero /\ sc = 0)
                 => setCreditScoreErr(c, u, sc) = "Score must be > 0"
          /\ \A u \in Addr : getCreditScore(u) = 0 <=> lastUpdated[u] = 0)
    /\ [][ /\ (last'.op = "setCreditScore" /\ last'.err # "ok")
              => UNCHANGED <<creditScore, lastUpdated>>
           /\ \A u \in Addr :
                 getCreditScore(u) > 0 => getCreditScore(u)' > 0 ]_vars

\* a score of 0 was refused for a user who has a score
C34_Witness ==
    /\ last = Call("setCreditScore", "Score must be > 0")
    /\ getCreditScore(B1) > 0

\* C35: the score store has one admin, the deployer at first and never the
\* zero address: setAdmin(n) succeeds exactly for the current admin with
\* n # 0 and makes n the admin; whoever is not the admin, a previous admin
\* included, fails setCreditScore and setAdmin with "Not authorized".
C35_OneAdmin ==
    /\ admin = Owner
    /\ [](/\ admin \in Users
          /\ \A c \in Users, n \in StoreUsers :
                /\ setAdminErr(c, n) = "ok" <=> (c = admin /\ n # Zero)
                /\ c # admin => setAdminErr(c, n) = "Not authorized"
          /\ \A c \in Users, u \in StoreUsers, sc \in Scores :
                c # admin => setCreditScoreErr(c, u, sc) = "Not authorized")
    /\ [][ /\ \A c \in Users, n \in StoreUsers :
                 (setAdmin(c, n) /\ setAdminErr(c, n) = "ok") => admin' = n
           /\ admin' # admin => last' = Call("setAdmin", "ok") ]_vars

\* after the hand-over to the borrower and a score written by them, the
\* previous admin's setAdmin was refused
C35_Witness ==
    /\ admin = B1
    /\ last = Call("setAdmin", "Not authorized")
    /\ getCreditScore(Owner) > 0
    /\ lastUpdated[Owner] > 1

(* ------------------------------------------------------------------ *)
(* Properties of the scorer beside the ledger                           *)
(* ------------------------------------------------------------------ *)
\* C29: the scorer never writes the score store the gate reads: a call of
\* evaluateAndStore or previewDecision leaves getCreditScore(u) as it was
\* for every u, and with it the outcome of every issueLoan; a stored score
\* changes only by a successful setCreditScore, which only the store's
\* admin can make.
C29_ScorerNeverWritesScores ==
    /\ [](\A c \in Users, u \in ScoredUsers, sc \in Scores :
            c # admin => setCreditScoreErr(c, u, sc) = "Not authorized")
    /\ [][ /\ last'.op \in {"evaluateAndStore", "previewDecision"}
              => /\ \A u \in Addr : getCreditScore(u)' = getCreditScore(u)
                 /\ \A c \in Users, b \in Borrowers, p \in Amounts :
                       issueLoanErr(c, b, p)' = issueLoanErr(c, b, p)
           /\ (\E u \in Addr : getCreditScore(u)' # getCreditScore(u))
              => last' = Call("setCreditScore", "ok") ]_vars

\* the borrower has stored a decision with a score of 800 or more, the
\* store still holds 650 for them, and the gate has refused their loan
C29_Witness ==
    /\ last = Call("issueLoan", "InsufficientCreditScore")
    /\ getLastDecision(B1).creditScore >= 800
    /\ getCreditScore(B1) = 650
    /\ minCreditScore = 700

\* C38: issueLoan does not consult the scorer's stored decisions: it
\* succeeds exactly when the caller is the owner, the principal is positive
\* and within the liquidity, the gate is off or the stored score of the
\* score store reaches minCreditScore, and the token accepts the receiver,
\* whatever lastDecision holds; and it leaves lastDecision as it was.
C38_IssueIgnoresDecisions ==
    /\ [](\A c \in Users, b \in Borrowers, p \in Amounts :
            issueLoanErr(c, b, p) = "ok"
            <=> /\ c = owner
                /\ p > 0
                /\ p <= liquidity
                /\ \/ minCreditScore = 0
                   \/ creditScoreContract = Zero
                   \/ getCreditScore(b) >= minCreditScore
                /\ b # Zero)
    /\ [][ last'.op = "issueLoan" => UNCHANGED lastDecision ]_vars

\* with the gate on, a loan was issued to the borrower, who has no stored
\* decision, while the owner has one
C38_Witness ==
    /\ last = Call("issueLoan", "ok")
    /\ minCreditScore = 700
    /\ \E i \in LoanIds : loans[i].active /\ loans[i].borrower = B1
    /\ getLastDecision(B1) = ZeroDecision
    /\ getLastDecision(Owner) # ZeroDecision

(* ------------------------------------------------------------------ *)
(* Re-entrant repayment                                                 *)
(* ------------------------------------------------------------------ *)
\* C39: repay pulls the tokens after its overpayment check and before it
\* writes amountRepaid: a call waiting inside the transfer has passed its
\* checks and has written nothing.  Whatever repay calls the borrower
\* nests inside the transfer, no committed loan has amountRepaid above
\* totalOwed, and none is active with amountRepaid equal to totalOwed; a
\* transaction whose nested amounts sum to more than the remaining balance
\* reverts and leaves the ledger as it was.
C39_ReentryNeverOverpays ==
    /\ [](\A i \in LoanIds :
            /\ loans[i].amountRepaid <= loans[i].totalOwed
            /\ loans[i].active => loans[i].amountRepaid < loans[i].totalOwed)
    /\ [][ /\ Len(frames') > Len(frames) =>
                LET ls == IF frames = <<>> THEN loans ELSE work.loans
                    f  == frames'[Len(frames')]
                IN  /\ repayChecks(ls, f.caller, f.loanId, f.amount) = "ok"
                    /\ work'.loans = ls
           /\ last' = Call("repay", "Panic") => UNCHANGED <<loans, liquidity>>
           /\ frames # <<>> /\ frames' # <<>> => UNCHANGED <<loans, liquidity>>
         ]_vars

\* a transaction of two nested repay calls has just been rolled back, the
\* loan is still owed
C39_Witness ==
    /\ last = Call("repay", "Panic")
    /\ frames = <<>>
    /\ \E i \in LoanIds :
          loans[i].active /\ loans[i].amountRepaid < loans[i].totalOwed

(* ------------------------------------------------------------------ *)
(* The page's repayLoan helper                                          *)
(* ------------------------------------------------------------------ *)
\* C36: the repay transaction that repayLoan(loanId, amount) sends carries
\* the caller's loanId and the caller's amount converted to token units,
\* and it is sent with an allowance of at least that amount.
C36_SendsWhatWasAsked ==
    sent # NoTx =>
        /\ sent.loanId = wanted.loanId
        /\ sent.amount = wanted.amount
        /\ sent.allowed >= wanted.amount

(* ------------------------------------------------------------------ *)
(* WalletProvider                                                       *)
(* ------------------------------------------------------------------ *)
\* C40: whenever no balance fetch and no connection is in progress, the
\* balance is the reset value if walletAddress is empty and otherwise
\* what the fetch for the current walletAddress gave (its answer, or the
\* reset value when it failed), and isConnecting and isFetchingBalance
\* are false.
C40_BalanceOfCurrentWallet ==
    (fetches = <<>> /\ connecting = 0) =>
        /\ walletAddress = "" => balance = ResetBalance
        /\ walletAddress # "" =>
              balance \in {Shown(walletAddress), ResetBalance}
        /\ ~isConnecting
        /\ ~isFetchingBalance

(* ------------------------------------------------------------------ *)
(* Termination of repayment                                             *)
(* ------------------------------------------------------------------ *)
\* C30: repayment terminates: when the borrower of an active loan keeps
\* repaying amounts between 1 and the remaining balance and the loan is
\* not cancelled, the loan becomes inactive with amountRepaid = totalOwed;
\* every accepted repayment strictly lowers getRemainingBalance.
C30_RepaymentTerminates ==
    /\ \A i \in LoanIds :
          (loans[i].active /\ loans[i].borrower \in Users)
          ~> (~loans[i].active
                /\ loans[i].amountRepaid = loans[i].totalOwed)
    /\ [][ \A i \in LoanIds :
             (last' = Call("repay", "ok") /\ loans'[i] # loans[i])
             => getRemainingBalance(i)' < getRemainingBalance(i) ]_vars

\* a loan of 2 was closed by its last repayment
C30_Witness ==
    /\ last = Call("repay", "ok")
    /\ \E i \in LoanIds :
          /\ loans[i].borrower = B1
          /\ loans[i].totalOwed = 2
          /\ loans[i].amountRepaid = 2
          /\ ~loans[i].active

====
